---- MODULE Spec2Model ----
(***************************************************************************)
(* A model of midi_play: the track merge and event compilation done when a *)
(* file is loaded (src/src/midi_file.rs, FilePlayer::new), the Windows     *)
(* multimedia output port with its in-flight long messages                 *)
(* (src/src/driver.rs), and the playback loop of the worker thread         *)
(* (FilePlayer::play_events in src/src/main.rs).                           *)
(*                                                                         *)
(* The specifications share the variables:                                 *)
(*   SpecLoad  FilePlayer::new: parse result, fold of combine_tracks, one  *)
(*             loop iteration of combine_tracks per step, combine_events.  *)
(*   SpecPort  a WinMidiPort driven by arbitrary calls of send,            *)
(*             check_inflight and drop, against a driver that answers any  *)
(*             status it may answer.                                       *)
(*   SpecPlay  the worker thread running play_events on a compiled         *)
(*             timeline, with the clock, the RUNNING flag and the port.    *)
(*   SpecPlayFair  SpecPlay over fewer timelines, with a fair worker and   *)
(*             an advancing clock.                                         *)
(*   SpecPoll  check_inflight and the driver over a port holding three     *)
(*             in-flight long messages.                                    *)
(*   SpecApp   the owner (PlayerInstance) with its file queue and the      *)
(*             workers it spawns one after another.                        *)
(***************************************************************************)
EXTENDS Integers, Sequences, FiniteSets, TLC

VARIABLES
    \* ---- FilePlayer::new and combine_tracks (locals kept as state) ----
    new_pc,          \* "parse" | "for" | "merge" | "built" | "error"
    file_division,   \* midi_data.division (i16)
    file_tracks,     \* midi_data.tracks, each a sequence of TrackEvent
    track_i,         \* number of tracks the for loop has consumed
    events,          \* Option<Vec<TrackEvent>>: None or Some(v)
    track1_events,   \* combine_tracks: first argument
    track2_events,   \* combine_tracks: second argument
    track1,          \* combine_tracks: what the first iterator still holds
    track2,          \* combine_tracks: what the second iterator still holds
    t0,              \* combine_tracks: Option<TrackEvent>, pending head of track1
    t1,              \* combine_tracks: Option<TrackEvent>, pending head of track2
    combined,        \* combine_tracks: the output vector
    player_division, \* FilePlayer.division (u64)
    player_events,   \* FilePlayer.events: Vec<DataEvent>
    \* ---- WinMidiPort, the heap it owns, and the driver ----
    port_state,         \* "none" | "open" | "failed" (connect) | "dropped"
    inflight,           \* WinMidiPort.inflight: Vec<InflightRequest>
    inflight_to_remove, \* WinMidiPort.inflight_to_remove: Vec<usize>
    vec_buf,            \* allocation that holds the elements of inflight (0: none)
    vec_cap,            \* capacity of inflight
    drv_regs,           \* headers the driver holds: address, buffer, queued
    drv_handle,         \* "closed" | "open": the HMIDIOUT device handle
    event_signaled,     \* the manual-reset event given to midiOutOpen
    op_calls,           \* the driver calls made by the last step, in order
    wild_write,         \* the driver has written through a freed header address
    last_op,            \* the last operation on the port or by the driver
    last_send,          \* what the last send was given and what it returned
    last_poll,          \* what the last check_inflight found and was answered
    \* ---- the worker thread in FilePlayer::play_events, and its environment ----
    play_pc,         \* where the worker is in play_events
    RUNNING,         \* the static AtomicBool
    iter_pos,        \* events the iterator has yielded
    current_tempo,   \* microseconds per quarter note
    waiting_start,   \* Instant, in microseconds
    waiting_micros,  \* the wait of the event being paced
    clock,           \* what Instant::now() returns, in microseconds
    observed,        \* where the worker has read RUNNING as false, or "no"
    dispatched,      \* events that reached the match on event.data
    sent,            \* the sends made for timeline events, in order
    play_result,     \* "running", or how play_events ended
    senders,         \* the worker's channel senders: "alive" | "dropped"
    after_cancel,    \* events dispatched since RUNNING was cleared
    \* ---- PlayerInstance, the owner of the sessions ----
    current_player,  \* PlayerInstance.current_player is Some
    files_to_play,   \* PlayerInstance.files_to_play
    file_picker,     \* the file dialog: "none" | "open" | "answered"
    last_session     \* how the session before the current one ended

loadVars == <<new_pc, file_division, file_tracks, track_i, events,
              track1_events, track2_events, track1, track2, t0, t1,
              combined, player_division, player_events>>

portVars == <<port_state, inflight, inflight_to_remove, vec_buf, vec_cap,
              drv_regs, drv_handle, event_signaled,
              op_calls, wild_write, last_op, last_send, last_poll>>

playVars == <<play_pc, RUNNING, iter_pos, current_tempo, waiting_start,
              waiting_micros, clock, observed, dispatched, sent, play_result,
              senders, after_cancel>>

ownerVars == <<current_player, files_to_play, file_picker, last_session>>

vars == <<loadVars, portVars, playVars, ownerVars>>

notLoad == <<portVars, playVars, ownerVars>>

notPort == <<loadVars, playVars, ownerVars>>

harnessVars == <<last_op, last_send, last_poll>>

(***************************************************************************)
(* Bounds of the model.                                                    *)
(***************************************************************************)
MaxTracks == 3   \* tracks in a file
MaxEvents == 3   \* events in a file, all tracks together
MaxDelta == 2    \* largest delta time of an input event, in ticks
MaxInflight == 2 \* message buffers in use or held by the driver when the harness sends a long message
MaxNotReady == 1 \* MIDIERR_NOTREADY answers to one driver call before another answer
MaxPlayLen == 3  \* events of a compiled timeline handed to the worker
MaxLate == 2     \* microseconds the clock may be past a deadline when it is read

(***************************************************************************)
(* Option<T> as a sequence of at most one element.                         *)
(***************************************************************************)
None == <<>>
Some(x) == <<x>>
IsSome(o) == o # <<>>

RECURSIVE SumVtime(_)
SumVtime(s) == IF s = <<>> THEN 0 ELSE s[1].vtime + SumVtime(Tail(s))

Prefix(s, k) == SubSeq(s, 1, k)

(***************************************************************************)
(* The parser's output (rimd::SMF, outside this repository): tracks of     *)
(* TrackEvent {vtime, event}.  The payload of the p-th event of track t is *)
(* fixed by (t, p) and differs from every other payload, so an event can   *)
(* be followed through the merge by its payload alone; the delta times are *)
(* free.  Odd tracks hold channel messages (track 3 a system-exclusive     *)
(* message too), even tracks hold meta events (tempo and text).            *)
(***************************************************************************)
PayloadOf(t, p) ==
    IF t % 2 = 0
    THEN [kind |-> "Meta",
          command |-> IF p % 2 = 1 THEN "TempoSetting" ELSE "Text",
          data |-> <<t, p, 0>>]
    ELSE [kind |-> "Midi",
          data |-> IF t % 4 = 3 /\ p % 2 = 1
                   THEN <<240, 126, 16 * t + p, 9, 1, 247>>
                   ELSE IF p % 2 = 1 THEN <<144, 16 * t + p, 127>>
                                     ELSE <<128, 16 * t + p>>]

MkTrack(t, deltas) ==
    [p \in 1..Len(deltas) |-> [vtime |-> deltas[p], event |-> PayloadOf(t, p)]]

\* The delta-time sequences of n tracks holding at most budget events together.
RECURSIVE DeltaFiles(_, _)
DeltaFiles(n, budget) ==
    IF n = 0 THEN {<<>>}
    ELSE UNION { { Append(f, d) : f \in DeltaFiles(n - 1, budget - l),
                                  d \in [1..l -> 0..MaxDelta] }
                 : l \in 0..budget }

ParsedTracks ==
    UNION { { [t \in 1..n |-> MkTrack(t, df[t])] : df \in DeltaFiles(n, MaxEvents) }
            : n \in 0..MaxTracks }

\* i16 division values a file may carry: SMPTE (negative), zero, ticks per beat.
FileDivisions == {-1, 0, 96}

(***************************************************************************)
(* combine_tracks, one loop iteration at a time.                           *)
(***************************************************************************)
\* The match of lines 34-41: 0 selects t0, 1 selects t1, 2 is the break.
Select_TieToSecond(a, b) ==
    IF IsSome(a) /\ IsSome(b) /\ b[1].vtime <= a[1].vtime THEN 1
    ELSE IF IsSome(a) THEN 0
    ELSE IF IsSome(b) THEN 1
    ELSE 2

Select_LaterFirst(a, b) ==
    IF IsSome(a) /\ IsSome(b) /\ b[1].vtime > a[1].vtime THEN 1
    ELSE IF IsSome(a) THEN 0
    ELSE IF IsSome(b) THEN 1
    ELSE 2

Select_StopAtFirstEnd(a, b) ==
    IF IsSome(a) /\ IsSome(b) /\ b[1].vtime < a[1].vtime THEN 1
    ELSE IF IsSome(a) /\ IsSome(b) THEN 0
    ELSE 2

Select(a, b) ==
    IF IsSome(a) /\ IsSome(b) /\ b[1].vtime < a[1].vtime THEN 1
    ELSE IF IsSome(a) THEN 0
    ELSE IF IsSome(b) THEN 1
    ELSE 2

\* Lines 43-46: the non-selected head after the decrement (u64 subtraction;
\* SubU64 is -1 where the subtraction would underflow).
SubU64(x, y) == IF x >= y THEN x - y ELSE -1

Rebase_None(non_selected, selected) == non_selected

Rebase_ToZero(non_selected, selected) ==
    IF IsSome(non_selected)
    THEN Some([non_selected[1] EXCEPT !.vtime = 0])
    ELSE None

Rebase(non_selected, selected) ==
    IF IsSome(non_selected)
    THEN Some([non_selected[1] EXCEPT
                  !.vtime = SubU64(non_selected[1].vtime, selected[1].vtime)])
    ELSE None

\* Iterator::next
IterNext(it) == IF it = <<>> THEN None ELSE Some(Head(it))
IterRest(it) == IF it = <<>> THEN <<>> ELSE Tail(it)

(***************************************************************************)
(* combine_events: the loop of lines 72-108 from position i on.            *)
(***************************************************************************)
DataEvent(delta_time, data) == [delta_time |-> delta_time, data |-> data]

Classify(ev) ==
    IF ev.event.kind = "Midi"
    THEN DataEvent(ev.vtime, [kind |-> "CombinedMidi", data |-> ev.event.data])
    ELSE DataEvent(ev.vtime, [kind |-> "Meta", meta |-> ev.event])

RECURSIVE CompileLoop(_, _, _)
CompileLoop(evs, i, out) ==
    IF i > Len(evs) THEN out
    ELSE CompileLoop(evs, i + 1, Append(out, Classify(evs[i])))

\* The coalescing variant: a channel message with delta 0 joins the previous one.
RECURSIVE CoalesceLoop(_, _, _)
CoalesceLoop(evs, i, out) ==
    IF i > Len(evs) THEN out
    ELSE LET c == Classify(evs[i])
             n == Len(out)
         IN IF /\ n > 0
               /\ c.data.kind = "CombinedMidi"
               /\ out[n].data.kind = "CombinedMidi"
               /\ c.delta_time = 0
            THEN CoalesceLoop(evs, i + 1,
                     [out EXCEPT ![n].data.data = out[n].data.data \o c.data.data])
            ELSE CoalesceLoop(evs, i + 1, Append(out, c))

combine_events_coalescing(evs) == CoalesceLoop(evs, 1, <<>>)

combine_events(evs) == CompileLoop(evs, 1, <<>>)

\* combine_tracks as a function of its arguments: the loop of lines 33-61
\* run to its break, on the heads, the iterators and the output so far.
RECURSIVE CombineLoop(_, _, _, _, _)
CombineLoop(h0, h1, it1, it2, out) ==
    IF Select(h0, h1) = 2 THEN out
    ELSE IF Select(h0, h1) = 0
    THEN CombineLoop(IterNext(it1), Rebase(h1, h0), IterRest(it1), it2,
                     Append(out, h0[1]))
    ELSE CombineLoop(Rebase(h0, h1), IterNext(it2), it1, IterRest(it2),
                     Append(out, h1[1]))

combine_tracks(a, b) ==
    CombineLoop(IterNext(a), IterNext(b), IterRest(a), IterRest(b), <<>>)

\* The for loop of FilePlayer::new (lines 424-439) from track i on.
RECURSIVE FoldTracks(_, _, _)
FoldTracks(tracks, i, acc) ==
    IF i > Len(tracks) THEN acc
    ELSE FoldTracks(tracks, i + 1,
                    IF IsSome(acc) THEN Some(combine_tracks(acc[1], tracks[i]))
                                   ELSE Some(tracks[i]))

\* FilePlayer.events for a file with at least one track (lines 441-448).
LoadedEvents(tracks) == combine_events(FoldTracks(tracks, 1, None)[1])

(***************************************************************************)
(* FilePlayer::new                                                         *)
(***************************************************************************)
InitLoad ==
    /\ new_pc = "parse"
    /\ file_division = 0
    /\ file_tracks = <<>>
    /\ track_i = 0
    /\ events = None
    /\ track1_events = <<>>
    /\ track2_events = <<>>
    /\ track1 = <<>>
    /\ track2 = <<>>
    /\ t0 = None
    /\ t1 = None
    /\ combined = <<>>
    /\ player_division = 0
    /\ player_events = <<>>

mergeLocals == <<track1_events, track2_events, track1, track2, t0, t1, combined>>

\* Lines 416-420: SMF::from_file, and the SMPTE check.  A rejected file is
\* dropped with the error.
NewParse ==
    /\ new_pc = "parse"
    /\ \E d \in FileDivisions, trs \in ParsedTracks :
          /\ file_division' = d
          /\ IF d < 0
             THEN new_pc' = "error" /\ file_tracks' = <<>>
             ELSE new_pc' = "for" /\ file_tracks' = trs
    /\ UNCHANGED <<track_i, events, mergeLocals, player_division, player_events>>
    /\ UNCHANGED notLoad

\* Lines 424-439, the first track: events = Some(track.events).
NewFirstTrack ==
    /\ new_pc = "for"
    /\ track_i < Len(file_tracks)
    /\ ~IsSome(events)
    /\ events' = Some(file_tracks[track_i + 1])
    /\ track_i' = track_i + 1
    /\ UNCHANGED <<new_pc, file_division, file_tracks, mergeLocals,
                   player_division, player_events>>
    /\ UNCHANGED notLoad

\* Lines 434-435 and 25-31: a later track enters combine_tracks.
NewCombineCall ==
    /\ new_pc = "for"
    /\ track_i < Len(file_tracks)
    /\ IsSome(events)
    /\ LET a == events[1]
           b == file_tracks[track_i + 1]
       IN /\ track1_events' = a
          /\ track2_events' = b
          /\ combined' = <<>>
          /\ t0' = IterNext(a)
          /\ track1' = IterRest(a)
          /\ t1' = IterNext(b)
          /\ track2' = IterRest(b)
    /\ events' = None
    /\ track_i' = track_i + 1
    /\ new_pc' = "merge"
    /\ UNCHANGED <<file_division, file_tracks, player_division, player_events>>
    /\ UNCHANGED notLoad

\* Lines 33-60: one iteration of the loop that selects an event.
MergeIter ==
    /\ new_pc = "merge"
    /\ Select(t0, t1) # 2
    /\ IF Select(t0, t1) = 0
       THEN /\ combined' = Append(combined, t0[1])
            /\ t0' = IterNext(track1)
            /\ track1' = IterRest(track1)
            /\ t1' = Rebase(t1, t0)
            /\ UNCHANGED track2
       ELSE /\ combined' = Append(combined, t1[1])
            /\ t1' = IterNext(track2)
            /\ track2' = IterRest(track2)
            /\ t0' = Rebase(t0, t1)
            /\ UNCHANGED track1
    /\ UNCHANGED <<new_pc, file_division, file_tracks, track_i, events,
                   track1_events, track2_events, player_division, player_events>>
    /\ UNCHANGED notLoad

\* Lines 38-40 and 63, 435: the break, and events = Some(combined).
MergeReturn ==
    /\ new_pc = "merge"
    /\ Select(t0, t1) = 2
    /\ events' = Some(combined)
    /\ new_pc' = "for"
    /\ UNCHANGED <<file_division, file_tracks, track_i, mergeLocals,
                   player_division, player_events>>
    /\ UNCHANGED notLoad

\* Lines 441-451: no track at all is the error "No events found"; otherwise
\* the player is built from the compiled events.
NewBuild ==
    /\ new_pc = "for"
    /\ track_i = Len(file_tracks)
    /\ IF IsSome(events)
       THEN /\ new_pc' = "built"
            /\ player_division' = file_division
            /\ player_events' = combine_events(events[1])
       ELSE /\ new_pc' = "error"
            /\ UNCHANGED <<player_division, player_events>>
    /\ UNCHANGED <<file_division, file_tracks, track_i, events, mergeLocals>>
    /\ UNCHANGED notLoad

NextLoad ==
    \/ NewParse
    \/ NewFirstTrack
    \/ NewCombineCall
    \/ MergeIter
    \/ MergeReturn
    \/ NewBuild



(***************************************************************************)
(* The output port (src/src/driver.rs) and the driver behind it.           *)
(*                                                                         *)
(* The operations are functions from a world (the port, the heap it owns   *)
(* and the driver's side) and the driver's answers to the world after the  *)
(* call, so that a handler that makes several calls (send_reset, drop) is  *)
(* one step.  What the driver answers is not the program's choice: every   *)
(* action draws the answers from the statuses the call may return.         *)
(***************************************************************************)
NOERROR == "MMSYSERR_NOERROR"
NOTREADY == "MIDIERR_NOTREADY"
STILLPLAYING == "MIDIERR_STILLPLAYING"
DRVERROR == "MMSYSERR_ERROR"     \* any other status
NOTCALLED == "not called"

MHDR_DONE == 1
MHDR_PREPARED == 2
MHDR_INQUEUE == 4

GM1_RESET == <<240, 126, 127, 9, 1, 247>>
GS1_RESET == <<240, 65, 16, 66, 18, 64, 0, 127, 0, 65, 247>>

\* Vec's smallest non-zero capacity for elements of this size (alloc::raw_vec).
MinNonZeroCap == 4

HasBit(f, b) == (f \div b) % 2 = 1
SetBit(f, b) == IF HasBit(f, b) THEN f ELSE f + b
ClearBit(f, b) == IF HasBit(f, b) THEN f - b ELSE f

World ==
    [inflight |-> inflight, to_remove |-> inflight_to_remove,
     vec_buf |-> vec_buf, vec_cap |-> vec_cap,
     regs |-> drv_regs, handle |-> drv_handle,
     signaled |-> event_signaled, log |-> <<>>, wild |-> wild_write,
     port |-> port_state]

SetWorld(w) ==
    /\ inflight' = w.inflight
    /\ inflight_to_remove' = w.to_remove
    /\ vec_buf' = w.vec_buf
    /\ vec_cap' = w.vec_cap
    /\ drv_regs' = w.regs
    /\ drv_handle' = w.handle
    /\ event_signaled' = w.signaled
    /\ op_calls' = w.log
    /\ wild_write' = w.wild
    /\ port_state' = w.port

Logged(w, fn, arg, result, by) ==
    [w EXCEPT !.log = Append(@, [fn |-> fn, arg |-> arg, result |-> result, by |-> by])]

\* ---- the heap ----
\* The addresses of the message boxes the port owns.
Boxes(w) == { w.inflight[i].message.addr : i \in DOMAIN w.inflight }

\* Addresses in use, and addresses the driver still refers to.
Live(w) == Boxes(w) \cup (IF w.vec_cap > 0 THEN {w.vec_buf} ELSE {})
Held(w) == { r.lpData : r \in w.regs } \cup { r.hdr[1] : r \in w.regs }

\* The message buffers in use or still known to the driver.
Buffers(w) == Boxes(w) \cup { r.lpData : r \in w.regs }

\* The allocator: the lowest address that is neither in use nor still known
\* to the driver (an address the driver holds is never handed out again, so
\* that equal addresses always mean the same allocation).
Alloc(w, taken) ==
    LET used == Live(w) \cup Held(w) \cup taken
    IN CHOOSE a \in 1..(Cardinality(used) + 1) :
          a \notin used /\ \A b \in 1..(a - 1) : b \in used

\* ---- Vec<InflightRequest>: the elements live in one allocation ----
\* The address of the header (InflightRequest.data) of the element at slot i.
HdrAddr(w, i) == <<w.vec_buf, i>>

\* Vec::push: a full vector moves its elements to a new, larger allocation
\* and frees the old one.
VecPush(w, entry) ==
    IF Len(w.inflight) = w.vec_cap
    THEN [w EXCEPT !.inflight = Append(@, entry),
                   !.vec_cap = IF 2 * w.vec_cap > MinNonZeroCap
                               THEN 2 * w.vec_cap ELSE MinNonZeroCap,
                   !.vec_buf = Alloc(w, {entry.message.addr})]
    ELSE [w EXCEPT !.inflight = Append(@, entry)]

\* Vec::remove(index), index from 0: the later elements move down one slot;
\* the removed element is dropped, which frees its message box.
VecRemove(w, index) ==
    [w EXCEPT !.inflight = SubSeq(@, 1, index) \o SubSeq(@, index + 2, Len(@))]

\* Vec::pop, the popped element dropped.
VecPop(w) == VecRemove(w, Len(w.inflight) - 1)

\* ---- the driver ----
\* The driver sets MHDR_DONE in the header at the address it was given.  The
\* element now at that slot takes the write; a slot past the length is spare
\* capacity nobody reads; an allocation that is gone makes it a wild write.
WriteDone(w, hdr) ==
    IF w.vec_cap = 0 \/ hdr[1] # w.vec_buf THEN [w EXCEPT !.wild = TRUE]
    ELSE IF hdr[2] <= Len(w.inflight)
    THEN [w EXCEPT !.inflight[hdr[2]].data.dwFlags =
                        SetBit(ClearBit(@, MHDR_INQUEUE), MHDR_DONE)]
    ELSE w

\* The driver finishes the queued header r and signals the event (MOM_DONE).
DrvComplete(w, r) ==
    [WriteDone(w, r.hdr) EXCEPT
        !.regs = (@ \ {r}) \cup {[r EXCEPT !.queued = FALSE]},
        !.signaled = TRUE]

RECURSIVE DrvCompleteAll(_)
DrvCompleteAll(w) ==
    IF \E r \in w.regs : r.queued
    THEN DrvCompleteAll(DrvComplete(w, CHOOSE r \in w.regs : r.queued))
    ELSE w

\* midiOutPrepareHeader on the last element of inflight.
DrvPrepare(w, status, by) ==
    LET n == Len(w.inflight)
        done == IF status = NOERROR
                THEN [w EXCEPT
                        !.regs = @ \cup {[hdr |-> HdrAddr(w, n),
                                          lpData |-> w.inflight[n].data.lpData,
                                          queued |-> FALSE]},
                        !.inflight[n].data.dwFlags = SetBit(@, MHDR_PREPARED)]
                ELSE w
    IN Logged(done, "midiOutPrepareHeader", w.inflight[n].message.bytes, status, by)

\* midiOutLongMsg on the last element of inflight.
DrvLongMsg(w, status, by) ==
    LET n == Len(w.inflight)
        mine == { r \in w.regs : r.hdr = HdrAddr(w, n)
                                 /\ r.lpData = w.inflight[n].data.lpData }
        done == IF status = NOERROR
                THEN [w EXCEPT
                        !.regs = (@ \ mine) \cup
                                 { [r EXCEPT !.queued = TRUE] : r \in mine },
                        !.inflight[n].data.dwFlags =
                            SetBit(ClearBit(@, MHDR_DONE), MHDR_INQUEUE)]
                ELSE w
    IN Logged(done, "midiOutLongMsg", w.inflight[n].message.bytes, status, by)

\* midiOutUnprepareHeader on the header at slot i: success releases what the
\* driver holds for that address.
DrvUnprepare(w, i, status) ==
    IF status = NOERROR
    THEN [w EXCEPT !.regs = { r \in @ : r.hdr # HdrAddr(w, i) },
                   !.inflight[i].data.dwFlags = ClearBit(@, MHDR_PREPARED)]
    ELSE w

\* A header still in the driver's queue cannot be unprepared.
UnprepareAnswers(w, i) ==
    IF \E r \in w.regs : r.hdr = HdrAddr(w, i) /\ r.queued
    THEN {STILLPLAYING}
    ELSE {NOERROR, STILLPLAYING, DRVERROR}

\* midiOutReset: every queued buffer is marked done and returned.
DrvReset(w, status) ==
    Logged(IF status = NOERROR THEN DrvCompleteAll(w) ELSE w,
           "midiOutReset", <<>>, status, "drop")

\* midiOutClose fails while buffers are queued; its success ends the handle
\* and with it everything the driver held for it.
CloseAnswers(w) ==
    IF \E r \in w.regs : r.queued THEN {STILLPLAYING} ELSE {NOERROR, DRVERROR}

DrvClose(w, status) ==
    Logged(IF status = NOERROR
           THEN [w EXCEPT !.handle = "closed", !.regs = {}]
           ELSE w,
           "midiOutClose", <<>>, status, "drop")

\* ---- WinMidiPort::connect (lines 81-107) ----
\* CreateEventW(manual reset, not signaled), then midiOutOpen, which signals
\* the event when the device opens (MOM_OPEN).
Connect(w, status) ==
    LET opened == IF status = NOERROR
                  THEN [w EXCEPT !.handle = "open", !.signaled = TRUE,
                                 !.port = "open", !.inflight = <<>>,
                                 !.to_remove = <<>>]
                  ELSE [w EXCEPT !.signaled = FALSE, !.port = "failed"]
    IN [w |-> Logged(opened, "midiOutOpen", <<>>, status, "connect"),
        result |-> IF status = NOERROR THEN "Ok" ELSE "Err"]

\* ---- WinMidiPort::send (lines 122-202) ----
\* Lines 130-138: the bytes are written at offsets 0.. of a zeroed DWORD.
PacketBytes(message) ==
    [i \in 0..3 |-> IF i < Len(message) THEN message[i + 1] ELSE 0]

\* The same bytes with the first three taken most-significant byte first.
PacketWord_FirstByteHigh(b) == 65536 * b[0] + 256 * b[1] + b[2] + 16777216 * b[3]

\* The DWORD those four bytes are read as (Windows targets are little-endian).
PacketWord(b) == b[0] + 256 * b[1] + 65536 * b[2] + 16777216 * b[3]

\* The calls of a retry loop that were answered NOTREADY: the same call again.
RECURSIVE Retried(_, _, _, _, _)
Retried(w, fn, arg, n, by) ==
    IF n = 0 THEN w
    ELSE Retried(Logged(w, fn, arg, NOTREADY, by), fn, arg, n - 1, by)

\* A short send without the loop: MIDIERR_NOTREADY is returned as an error.
SendShort_NoRetry(w, message, ans, by) ==
    LET packet == PacketWord(PacketBytes(message))
        status == IF ans.tries > 0 THEN NOTREADY ELSE ans.final
    IN [w |-> Logged(w, "midiOutShortMsg", packet, status, by),
        result |-> IF status = NOERROR THEN "Ok" ELSE "Err"]

\* Lines 140-153: the loop leaves with the first answer that is not NOTREADY.
SendShort(w, message, ans, by) ==
    LET packet == PacketWord(PacketBytes(message))
    IN [w |-> Logged(Retried(w, "midiOutShortMsg", packet, ans.tries, by),
                     "midiOutShortMsg", packet, ans.final, by),
        result |-> IF ans.final = NOERROR THEN "Ok" ELSE "Err"]

\* Lines 156-167: a fresh box holds a copy of the bytes, the header points at it.
NewRequest(w, message) ==
    [message |-> [addr |-> Alloc(w, {}), bytes |-> message],
     data |-> [lpData |-> Alloc(w, {}), dwBufferLength |-> Len(message),
               dwFlags |-> 0]]

\* A long send that leaves the entry in place when the submission fails.
SendLong_KeepOnError(w, message, ans, by) ==
    LET pushed == VecPush(w, NewRequest(w, message))
        prepared == DrvPrepare(pushed, ans.prepare, by)
        submitted == DrvLongMsg(Retried(prepared, "midiOutLongMsg", message,
                                        ans.tries, by),
                                ans.final, by)
    IN IF ans.prepare # NOERROR
       THEN [w |-> VecPop(prepared), result |-> "Err"]
       ELSE [w |-> submitted, result |-> IF ans.final = NOERROR THEN "Ok" ELSE "Err"]

\* Lines 154-198.
SendLong(w, message, ans, by) ==
    LET pushed == VecPush(w, NewRequest(w, message))
        prepared == DrvPrepare(pushed, ans.prepare, by)
        submitted == DrvLongMsg(Retried(prepared, "midiOutLongMsg", message,
                                        ans.tries, by),
                                ans.final, by)
    IN IF ans.prepare # NOERROR
       THEN [w |-> VecPop(prepared), result |-> "Err"]
       ELSE IF ans.final # NOERROR
       THEN [w |-> VecPop(submitted), result |-> "Err"]
       ELSE [w |-> submitted, result |-> "Ok"]

Send(w, message, ans, by) ==
    IF Len(message) = 0 THEN [w |-> w, result |-> "Ok"]
    ELSE IF Len(message) <= 3 THEN SendShort(w, message, ans, by)
    ELSE SendLong(w, message, ans, by)

\* What the driver may answer to the calls of one send: NOTREADY some number
\* of times, then another status; an error or success to prepare.
SendAnswers ==
    [tries : 0..MaxNotReady, prepare : {NOERROR, DRVERROR}, final : {NOERROR, DRVERROR}]

\* Only the answers the path of this message asks for.
AnswersFor(message) ==
    IF Len(message) = 0
    THEN { a \in SendAnswers : a.tries = 0 /\ a.prepare = NOERROR /\ a.final = NOERROR }
    ELSE IF Len(message) <= 3
    THEN { a \in SendAnswers : a.prepare = NOERROR }
    ELSE { a \in SendAnswers : a.prepare # NOERROR => (a.tries = 0 /\ a.final = DRVERROR) }

\* ---- WinMidiPort::send_reset (lines 113-120) ----
SendReset(w, a1, a2, by) ==
    LET gs == Send(w, GS1_RESET, a1, by)
    IN IF gs.result = "Err" THEN gs ELSE Send(gs.w, GM1_RESET, a2, by)

\* The answers to the calls of send_reset; the second send is made only
\* after the first succeeded.
ResetAnswers ==
    { <<a1, a2>> \in AnswersFor(GS1_RESET) \X AnswersFor(GM1_RESET) :
        /\ a1.tries = 0 /\ a2.tries = 0
        /\ (a1.prepare # NOERROR \/ a1.final # NOERROR)
              => (a2.prepare = NOERROR /\ a2.final = NOERROR) }

\* ---- WinMidiPort::check_inflight (lines 209-234) ----
IsDone(dwFlags) == HasBit(dwFlags, MHDR_DONE)

ShouldRemove_Always(result) == TRUE

\* Line 224
ShouldRemove(result) == result # STILLPLAYING

\* Lines 212-227 from element i on; answers[i] is the driver's answer for it.
RECURSIVE PollLoop(_, _, _)
PollLoop(w, i, answers) ==
    IF i > Len(w.inflight) THEN w
    ELSE IF ~IsDone(w.inflight[i].data.dwFlags)
    THEN PollLoop(w, i + 1, answers)
    ELSE LET u == DrvUnprepare(w, i, answers[i])
         IN PollLoop(IF ShouldRemove(answers[i])
                     THEN [u EXCEPT !.to_remove = Append(@, i - 1)]
                     ELSE u,
                     i + 1, answers)

RECURSIVE RemoveLoop_LowestFirst(_)
RemoveLoop_LowestFirst(w) ==
    IF w.to_remove = <<>> THEN w
    ELSE LET rest == [w EXCEPT !.to_remove = Tail(@)]
         IN RemoveLoop_LowestFirst(IF Head(w.to_remove) < Len(w.inflight)
                                   THEN VecRemove(rest, Head(w.to_remove))
                                   ELSE rest)

\* Lines 229-231: the indices are popped, so removed from the highest down.
RECURSIVE RemoveLoop(_)
RemoveLoop(w) ==
    IF w.to_remove = <<>> THEN w
    ELSE LET n == Len(w.to_remove)
         IN RemoveLoop(VecRemove([w EXCEPT !.to_remove = SubSeq(@, 1, n - 1)],
                                 w.to_remove[n]))

CheckInflight(w, answers) ==
    RemoveLoop(PollLoop([w EXCEPT !.to_remove = <<>>], 1, answers))

\* One answer per element: NOTCALLED where the loop does not call the driver.
PollAnswers(w) ==
    { a \in [1..Len(w.inflight) -> {NOERROR, STILLPLAYING, DRVERROR, NOTCALLED}] :
        \A i \in 1..Len(w.inflight) :
            IF IsDone(w.inflight[i].data.dwFlags)
            THEN a[i] \in UnprepareAnswers(w, i)
            ELSE a[i] = NOTCALLED }

\* ---- Drop for WinMidiPort (lines 237-264), then the fields are dropped ----
FreeAll(w) ==
    [w EXCEPT !.inflight = <<>>, !.to_remove = <<>>, !.vec_cap = 0, !.vec_buf = 0,
              !.port = "dropped"]

\* A teardown that gives up when the reset could not be sent.
DropUpToClose_StopOnError(w, resets, reset) ==
    LET sr == SendReset(w, resets[1], resets[2], "drop")
    IN IF sr.result = "Err" THEN sr.w ELSE DrvReset(sr.w, reset)

DropUpToClose(w, resets, reset) ==
    DrvReset(SendReset(w, resets[1], resets[2], "drop").w, reset)

DropPort(w, resets, reset, close) ==
    FreeAll(Logged(DrvClose(DropUpToClose(w, resets, reset), close),
                   "CloseHandle", <<>>, NOERROR, "drop"))

(***************************************************************************)
(* The harness of SpecPort: a port under arbitrary calls.                  *)
(***************************************************************************)
NoSend == [message |-> <<>>, answers |-> <<>>, result |-> "none", before |-> <<>>]
NoPoll == [before |-> <<>>, answers |-> <<>>]

InitPort ==
    /\ port_state = "none"
    /\ inflight = <<>>
    /\ inflight_to_remove = <<>>
    /\ vec_buf = 0
    /\ vec_cap = 0
    /\ drv_regs = {}
    /\ drv_handle = "closed"
    /\ event_signaled = FALSE
    /\ op_calls = <<>>
    /\ wild_write = FALSE
    /\ last_op = "none"
    /\ last_send = NoSend
    /\ last_poll = NoPoll

\* Messages of every length class: none, 1, 2 and 3 bytes, and a long one.
TestMessages == { <<>>, <<248>>, <<192, 5>>, <<144, 64, 127>>, <<240, 1, 2, 247>> }

SendRecord(w, message, ans, result) ==
    [message |-> message, answers |-> ans, result |-> result, before |-> w.inflight]

PortConnect ==
    /\ port_state = "none"
    /\ \E status \in {NOERROR, DRVERROR} :
          SetWorld(Connect(World, status).w)
    /\ last_op' = "connect"
    /\ last_send' = NoSend
    /\ last_poll' = NoPoll
    /\ UNCHANGED notPort

PortSend ==
    /\ port_state = "open"
    /\ \E message \in TestMessages :
          /\ Len(message) > 3 => Cardinality(Buffers(World)) < MaxInflight
          /\ \E ans \in AnswersFor(message) :
             \E r \in {Send(World, message, ans, "caller")} :
                /\ SetWorld(r.w)
                /\ last_send' = SendRecord(World, message, ans, r.result)
    /\ last_op' = "send"
    /\ last_poll' = NoPoll
    /\ UNCHANGED notPort

PortCheckInflight ==
    /\ port_state = "open"
    /\ \E answers \in PollAnswers(World) :
       \E w \in {CheckInflight(World, answers)} :
          /\ SetWorld(w)
          /\ last_poll' = [before |-> inflight, answers |-> answers]
    /\ last_op' = "check_inflight"
    /\ last_send' = NoSend
    /\ UNCHANGED notPort

\* The driver finishes a queued long message.
DriverDone ==
    /\ \E r \in drv_regs :
          /\ r.queued
          /\ \E w \in {DrvComplete(World, r)} :
                SetWorld(w)
    /\ last_op' = "driver_done"
    /\ last_send' = NoSend
    /\ last_poll' = NoPoll
    /\ UNCHANGED notPort

PortDrop ==
    /\ port_state = "open"
    /\ \E resets \in ResetAnswers, reset \in {NOERROR, DRVERROR} :
          \E close \in CloseAnswers(DropUpToClose(World, resets, reset)) :
          \E w \in {DropPort(World, resets, reset, close)} :
             SetWorld(w)
    /\ last_op' = "drop"
    /\ last_send' = NoSend
    /\ last_poll' = NoPoll
    /\ UNCHANGED notPort

NextPort ==
    \/ PortConnect
    \/ PortSend
    \/ PortCheckInflight
    \/ DriverDone
    \/ PortDrop


(***************************************************************************)
(* The worker thread: FilePlayer::play_events (src/src/main.rs, 454-538).  *)
(*                                                                         *)
(* The function is cut where the thread blocks or touches what it shares   *)
(* with others: the driver, the clock and RUNNING.  The channel sends to   *)
(* the owner are taken to succeed.                                         *)
(***************************************************************************)
Event == player_events[iter_pos]

\* A read of one byte too few.
RECURSIVE data_as_u64_DropLast(_, _)
data_as_u64_DropLast(data, len) ==
    IF len <= 1 THEN 0
    ELSE 256 * data_as_u64_DropLast(data, len - 1) + data[len - 1]

\* rimd's MetaEvent::data_as_u64(len): the first len bytes, big-endian.
RECURSIVE data_as_u64(_, _)
data_as_u64(data, len) ==
    IF len = 0 THEN 0
    ELSE 256 * data_as_u64(data, len - 1) + data[len]

\* The division done on each factor before the multiplication.
WaitMicros_DivideFirst(delta_time, tempo, division) ==
    delta_time * (tempo \div division)

\* Line 486.  delta_time comes from a variable-length quantity (below 2^28)
\* and the tempo from three bytes (below 2^24): the u64 product cannot wrap.
WaitMicros(delta_time, tempo, division) ==
    (delta_time * tempo) \div division

\* A meta branch that leaves the event alone.
SetEvent_Missing(w) == w

\* Line 521: SetEvent(conn_out.event_handle())
SetEvent(w) ==
    Logged([w EXCEPT !.signaled = TRUE], "SetEvent", <<>>, NOERROR, "meta")

\* A send of the status byte alone.
EventBytes_StatusOnly(ev) == <<ev.data.data[1]>>

\* Line 526: conn_out.send(&data), the bytes of the event as compiled.
EventBytes(ev) == ev.data.data

\* A comparison that lets the wait end one microsecond early.
WaitElapsed_Never(now, start, micros) == FALSE

WaitElapsed_OneEarly(now, start, micros) == now - start >= micros - 1

\* Line 494: now.duration_since(waiting_start) >= waiting_time
WaitElapsed(now, start, micros) == now - start >= micros

\* Line 500 leaves play_events from inside the pacing loop.
SpinReturn_Break == "reset_start"

SpinReturn == "drop"

InitWorker ==
    /\ play_pc = "connect"
    /\ RUNNING = TRUE
    /\ iter_pos = 0
    /\ current_tempo = 0
    /\ waiting_start = 0
    /\ waiting_micros = 0
    /\ clock = 0
    /\ observed = "no"
    /\ dispatched = 0
    /\ sent = <<>>
    /\ play_result = "running"
    /\ senders = "alive"
    /\ after_cancel = 0

\* Line 455: a failed connect returns the error; there is no port to drop.
PlayConnect ==
    /\ play_pc = "connect"
    /\ \E status \in {NOERROR, DRVERROR} :
       \E r \in {Connect(World, status)} :
          /\ SetWorld(r.w)
          /\ play_pc' = IF r.result = "Ok" THEN "send_reset" ELSE "exited"
          /\ play_result' = IF r.result = "Ok" THEN play_result ELSE "Err"
    /\ UNCHANGED <<loadVars, harnessVars, ownerVars, senders, after_cancel,
                   RUNNING, iter_pos, current_tempo,
                   waiting_start, waiting_micros, clock, observed, dispatched, sent>>

\* Lines 458-470: the reset, then the locals of the loop.
PlaySendReset ==
    /\ play_pc = "send_reset"
    /\ \E a \in ResetAnswers :
       \E r \in {SendReset(World, a[1], a[2], "send_reset")} :
          /\ SetWorld(r.w)
          /\ play_pc' = IF r.result = "Ok" THEN "fetch" ELSE "drop"
          /\ play_result' = IF r.result = "Ok" THEN play_result ELSE "Err"
    /\ current_tempo' = 500000
    /\ waiting_start' = clock
    /\ UNCHANGED <<loadVars, harnessVars, ownerVars, senders, after_cancel,
                   RUNNING, iter_pos, waiting_micros,
                   clock, observed, dispatched, sent>>

\* Lines 473-479: iter.next(), then the load of RUNNING.
\* Lines 477-479: the flag is read after every iter.next().
BetweenEvents_NoCheck(running) == "wait_event"

BetweenEvents(running) == IF running THEN "wait_event" ELSE "drop"

PlayFetch ==
    /\ play_pc = "fetch"
    /\ IF iter_pos = Len(player_events)
       THEN /\ play_pc' = "drop"
            /\ play_result' = "Ok"
            /\ UNCHANGED <<iter_pos, observed>>
       ELSE /\ iter_pos' = iter_pos + 1
            /\ play_pc' = BetweenEvents(RUNNING)
            /\ IF BetweenEvents(RUNNING) = "wait_event"
               THEN UNCHANGED <<observed, play_result>>
               ELSE /\ play_result' = "Ok"
                    /\ observed' = "between events"
    /\ op_calls' = <<>>
    /\ UNCHANGED <<loadVars, harnessVars, ownerVars, senders, after_cancel,
                   port_state, inflight, inflight_to_remove,
                   vec_buf, vec_cap, drv_regs, drv_handle, event_signaled,
                   wild_write, RUNNING, current_tempo, waiting_start,
                   waiting_micros, clock, dispatched, sent>>

\* Lines 483-489: WaitForSingleObject returns once the event is signaled (a
\* manual-reset event stays signaled); then the wait is computed.  A division
\* by zero panics, and the unwinding drops the port.
PlayWait ==
    /\ play_pc = "wait_event"
    /\ event_signaled
    /\ IF Event.delta_time = 0
       THEN /\ play_pc' = "dispatch"
            /\ UNCHANGED <<waiting_micros, play_result>>
       ELSE IF player_division = 0
       THEN /\ play_pc' = "drop"
            /\ play_result' = "panic"
            /\ UNCHANGED waiting_micros
       ELSE /\ waiting_micros' = WaitMicros(Event.delta_time, current_tempo,
                                            player_division)
            /\ play_pc' = "spin"
            /\ UNCHANGED play_result
    /\ op_calls' = <<>>
    /\ UNCHANGED <<loadVars, harnessVars, ownerVars, senders, after_cancel,
                   port_state, inflight, inflight_to_remove,
                   vec_buf, vec_cap, drv_regs, drv_handle, event_signaled,
                   wild_write, RUNNING, iter_pos, current_tempo, waiting_start,
                   clock, observed, dispatched, sent>>

\* Lines 491-503: one iteration of the pacing loop.
PlaySpin ==
    /\ play_pc = "spin"
    /\ IF WaitElapsed(clock, waiting_start, waiting_micros)
       THEN /\ play_pc' = "reset_start"
            /\ op_calls' = <<>>
            /\ UNCHANGED <<port_state, inflight, inflight_to_remove, vec_buf,
                           vec_cap, drv_regs, drv_handle, event_signaled,
                           wild_write, observed, play_result>>
       ELSE /\ \E answers \in PollAnswers(World) :
                  SetWorld(CheckInflight(World, answers))
            /\ IF RUNNING
               THEN UNCHANGED <<play_pc, observed, play_result>>
               ELSE /\ play_pc' = SpinReturn
                    /\ play_result' = "Ok"
                    /\ observed' = "in wait"
    /\ UNCHANGED <<loadVars, harnessVars, ownerVars, senders, after_cancel,
                   RUNNING, iter_pos, current_tempo,
                   waiting_start, waiting_micros, clock, dispatched, sent>>

\* Line 505
PlayResetStart ==
    /\ play_pc = "reset_start"
    /\ waiting_start' = clock
    /\ play_pc' = "dispatch"
    /\ op_calls' = <<>>
    /\ UNCHANGED <<loadVars, harnessVars, ownerVars, senders, after_cancel,
                   port_state, inflight, inflight_to_remove,
                   vec_buf, vec_cap, drv_regs, drv_handle, event_signaled,
                   wild_write, RUNNING, iter_pos, current_tempo, waiting_micros,
                   clock, observed, dispatched, sent, play_result>>

\* Lines 509-522: a meta event sets the tempo if it is a tempo event, and
\* signals the event of the port.
DispatchMeta ==
    /\ play_pc = "dispatch"
    /\ Event.data.kind = "Meta"
    /\ current_tempo' = IF Event.data.meta.command = "TempoSetting"
                        THEN data_as_u64(Event.data.meta.data, 3)
                        ELSE current_tempo
    /\ SetWorld(SetEvent(World))
    /\ dispatched' = dispatched + 1
    /\ play_pc' = "fetch"
    /\ after_cancel' = IF RUNNING THEN after_cancel ELSE after_cancel + 1
    /\ UNCHANGED <<loadVars, harnessVars, ownerVars, senders,
                   RUNNING, iter_pos, waiting_start,
                   waiting_micros, clock, observed, sent, play_result>>

\* Lines 523-533: a channel or system-exclusive message is sent; an error
\* of the send is returned.
\* conn_out.send(...)? : an error leaves play_events, which drops the port.
AfterSend_IgnoreError(result) == "fetch"

AfterSend(result) == IF result = "Ok" THEN "fetch" ELSE "drop"

DispatchMidi ==
    /\ play_pc = "dispatch"
    /\ Event.data.kind = "CombinedMidi"
    /\ \E ans \in AnswersFor(EventBytes(Event)) :
       \E r \in {Send(World, EventBytes(Event), ans, "event")} :
          /\ SetWorld(r.w)
          /\ sent' = Append(sent, [index |-> iter_pos, message |-> EventBytes(Event),
                                   result |-> r.result])
          /\ play_pc' = AfterSend(r.result)
          /\ play_result' = IF r.result = "Ok" THEN play_result ELSE "Err"
    /\ dispatched' = dispatched + 1
    /\ after_cancel' = IF RUNNING THEN after_cancel ELSE after_cancel + 1
    /\ UNCHANGED <<loadVars, harnessVars, ownerVars, senders,
                   RUNNING, iter_pos, current_tempo,
                   waiting_start, waiting_micros, clock, observed>>

\* conn_out goes out of scope: on return, on an error and on a panic.
PlayDrop ==
    /\ play_pc = "drop"
    /\ \E resets \in ResetAnswers, reset \in {NOERROR, DRVERROR} :
          \E close \in CloseAnswers(DropUpToClose(World, resets, reset)) :
          \E w \in {DropPort(World, resets, reset, close)} :
             SetWorld(w)
    /\ play_pc' = "exited"
    /\ UNCHANGED <<loadVars, harnessVars, ownerVars, senders, after_cancel,
                   RUNNING, iter_pos, current_tempo,
                   waiting_start, waiting_micros, clock, observed, dispatched,
                   sent, play_result>>

\* play_events is left: its parameter self is dropped after its locals, and
\* with it the senders of the two channels (fields log and event_log).
PlayReturn ==
    /\ play_pc = "exited"
    /\ senders = "alive"
    /\ senders' = "dropped"
    /\ UNCHANGED <<loadVars, portVars, ownerVars, play_pc, RUNNING, iter_pos,
                   current_tempo, waiting_start, waiting_micros, clock, observed,
                   dispatched, sent, play_result, after_cancel>>

\* ---- the environment of the worker ----
\* The console handler (line 388) or on_exit (line 370) clears the flag.
Cancel ==
    /\ RUNNING
    /\ play_pc # "exited"
    /\ RUNNING' = FALSE
    /\ UNCHANGED <<loadVars, portVars, ownerVars, senders, after_cancel,
                   play_pc, iter_pos, current_tempo,
                   waiting_start, waiting_micros, clock, observed, dispatched,
                   sent, play_result>>

\* The driver finishes a queued long message while the worker runs.
PlayDriverDone ==
    /\ \E r \in drv_regs :
          /\ r.queued
          /\ SetWorld([DrvComplete(World, r) EXCEPT !.log = op_calls])
    /\ UNCHANGED <<loadVars, harnessVars, ownerVars, playVars>>

\* Time passes while the worker paces an event: the next read of the clock
\* is just before the deadline, on it, or late.
Deadline == waiting_start + waiting_micros

Tick ==
    /\ play_pc \in {"spin", "reset_start"}
    /\ \E c \in {Deadline - 1, Deadline, Deadline + MaxLate} :
          /\ c > clock
          /\ clock' = c
    /\ UNCHANGED <<loadVars, portVars, ownerVars, senders, after_cancel,
                   play_pc, RUNNING, iter_pos, current_tempo,
                   waiting_start, waiting_micros, observed, dispatched, sent,
                   play_result>>

NextPlay ==
    \/ PlayConnect
    \/ PlaySendReset
    \/ PlayFetch
    \/ PlayWait
    \/ PlaySpin
    \/ PlayResetStart
    \/ DispatchMeta
    \/ DispatchMidi
    \/ PlayDrop
    \/ PlayReturn
    \/ Cancel
    \/ PlayDriverDone
    \/ Tick

\* PlayerInstance::new (lines 77-89)
InitOwner ==
    /\ current_player = FALSE
    /\ files_to_play = <<>>
    /\ file_picker = "none"
    /\ last_session = "none"

\* ---- the timelines handed to the worker ----
Note(delta_time, bytes) ==
    DataEvent(delta_time, [kind |-> "CombinedMidi", data |-> bytes])

Meta(delta_time, command, bytes) ==
    DataEvent(delta_time, [kind |-> "Meta",
                           meta |-> [kind |-> "Meta", command |-> command,
                                     data |-> bytes]])

\* 250000 = 0x03D090
Tempo250000(delta_time) == Meta(delta_time, "TempoSetting", <<3, 208, 144>>)

\* The two-track file of the end-to-end scenario (division 96): a note-on
\* and a note-off 96 ticks later in track 1, a tempo change at tick 48 in
\* track 2.
ScenarioTracks ==
    << << [vtime |-> 0, event |-> [kind |-> "Midi", data |-> <<144, 60, 127>>]],
          [vtime |-> 96, event |-> [kind |-> "Midi", data |-> <<128, 60, 0>>]] >>,
       << [vtime |-> 48, event |-> [kind |-> "Meta", command |-> "TempoSetting",
                                    data |-> <<3, 208, 144>>]] >> >>

ScenarioTimeline == LoadedEvents(ScenarioTracks)

BaseTimelines ==
    { <<Note(0, <<144, 60, 127>>), Tempo250000(48), Note(48, <<128, 60, 0>>),
        Note(0, <<192, 5>>)>>,
      <<Note(480, <<144, 60, 127>>), Tempo250000(0), Note(240, <<128, 60, 0>>),
        Meta(7, "Text", <<65>>)>>,
      <<Note(7, <<240, 1, 2, 247>>), Meta(0, "Text", <<65>>), Note(1, <<144, 64, 127>>),
        Tempo250000(1)>> }

PlayTimelines ==
    { Prefix(s, IF n < Len(s) THEN n ELSE Len(s)) :
        s \in BaseTimelines, n \in 0..MaxPlayLen } \cup {ScenarioTimeline}

\* FilePlayer::new accepts every division that is not negative.
PlayDivisions == {0, 96, 480}

\* A player as FilePlayer::new builds it, and the worker about to run.
InitPlay ==
    /\ new_pc = "built"
    /\ file_division \in PlayDivisions
    /\ player_division = file_division
    /\ player_events \in PlayTimelines
    /\ file_tracks = <<>>
    /\ track_i = 0
    /\ events = None
    /\ track1_events = <<>>
    /\ track2_events = <<>>
    /\ track1 = <<>>
    /\ track2 = <<>>
    /\ t0 = None
    /\ t1 = None
    /\ combined = <<>>
    /\ InitPort
    /\ InitWorker
    /\ current_player = TRUE
    /\ files_to_play = <<>>
    /\ file_picker = "none"
    /\ last_session = "none"

(***************************************************************************)
(* The specifications.                                                     *)
(***************************************************************************)
Init == InitLoad /\ InitPort /\ InitWorker /\ InitOwner

SpecLoad == Init /\ [][NextLoad]_vars

SpecPort == Init /\ [][NextPort]_vars

SpecPlay == InitPlay /\ [][NextPlay]_vars

\* The steps of the worker thread between the two send_reset calls.
Worker ==
    \/ PlayConnect
    \/ PlayFetch
    \/ PlayWait
    \/ PlaySpin
    \/ PlayResetStart
    \/ DispatchMeta
    \/ DispatchMidi
    \/ PlayReturn

\* PlaySendReset and PlayDrop are enabled in every state in which the worker
\* stands at them, and each moves the worker on: their weak fairness is
\* that the worker does not stand at either for ever.
ResetsReturn ==
    /\ []<>(play_pc # "send_reset")
    /\ []<>(play_pc # "drop")

FairTimelines ==
    { ScenarioTimeline,
      <<Note(1, <<240, 1, 2, 247>>), Note(0, <<144, 64, 127>>)>> }

InitPlayFair ==
    /\ InitPlay
    /\ player_events \in FairTimelines

\* The worker thread is scheduled again and again, and the clock it reads
\* keeps advancing.  (The driver answers not-ready at most MaxNotReady times
\* to a call, and connect leaves the event signaled.)
SpecPlayFair ==
    /\ InitPlayFair
    /\ [][NextPlay]_vars
    /\ WF_vars(Worker)
    /\ WF_vars(Tick)
    /\ ResetsReturn

(***************************************************************************)
(* check_inflight over a full collection: the port after connect and three *)
(* long sends that the driver accepted.                                    *)
(***************************************************************************)

PollMessages == {<<240, 1, 2, 247>>, <<240, 3, 4, 5, 247>>}

\* The port and the driver before connect, as in InitPort.
NewWorld ==
    [inflight |-> <<>>, to_remove |-> <<>>, vec_buf |-> 0, vec_cap |-> 0,
     regs |-> {}, handle |-> "closed", signaled |-> FALSE, log |-> <<>>,
     wild |-> FALSE, port |-> "none"]

AfterSends(messages) ==
    LET ok == [tries |-> 0, prepare |-> NOERROR, final |-> NOERROR]
        w0 == Connect(NewWorld, NOERROR).w
        w1 == Send(w0, messages[1], ok, "caller").w
        w2 == Send(w1, messages[2], ok, "caller").w
    IN  Send(w2, messages[3], ok, "caller").w

InitPoll ==
    /\ InitLoad
    /\ InitWorker
    /\ InitOwner
    /\ op_calls = <<>>
    /\ last_op = "send"
    /\ last_send = NoSend
    /\ last_poll = NoPoll
    /\ \E messages \in [1..3 -> PollMessages] :
       \E w \in {AfterSends(messages)} :
          /\ inflight = w.inflight
          /\ inflight_to_remove = w.to_remove
          /\ vec_buf = w.vec_buf
          /\ vec_cap = w.vec_cap
          /\ drv_regs = w.regs
          /\ drv_handle = w.handle
          /\ event_signaled = w.signaled
          /\ wild_write = w.wild
          /\ port_state = w.port

NextPoll ==
    \/ PortCheckInflight
    \/ DriverDone

SpecPoll == InitPoll /\ [][NextPoll]_vars

(***************************************************************************)
(* The owner: PlayerInstance (main.rs lines 35-377) with its workers.      *)
(***************************************************************************)

\* The files the picker can deliver, as midly parses them.
AppFiles ==
    { [name |-> "song.mid", division |-> 96, tracks |-> ScenarioTracks],
      [name |-> "short.mid", division |-> 96,
       tracks |-> << << [vtime |-> 0,
                         event |-> [kind |-> "Midi", data |-> <<192, 5>>]] >> >>],
      [name |-> "bad.mid", division |-> 96, tracks |-> <<>>] }

\* What one file dialog can answer: the chosen files in their order.
Selections ==
    { sel \in UNION { [1..n -> AppFiles] : n \in 1..Cardinality(AppFiles) } :
        \A i, j \in DOMAIN sel : sel[i] = sel[j] => i = j }

\* FilePlayer::new as a function of the parsed file.
FilePlayerNew(file) ==
    LET folded == FoldTracks(file.tracks, 1, None)
    IN  IF file.division < 0 \/ ~IsSome(folded)
        THEN None
        ELSE Some([division |-> file.division,
                   events |-> combine_events(folded[1])])

\* try_recv answers Disconnected once every sender of the channel is gone
\* and the queue is drained; the loops of update_state drain the queue.
Disconnected_OnEmpty(s) == TRUE

Disconnected(s) == s = "dropped"

\* "Update player status" of update_state (lines 131-168): the value of
\* current_player.is_some() afterwards.
PlayerStatus == current_player /\ ~Disconnected(senders)

\* The last send of the worker returned an error (main.rs lines 523-533:
\* the ? on conn_out.send).
SendFailed == sent # <<>> /\ sent[Len(sent)].result # "Ok"

\* play_next_file with the given queue: the file is popped, the player is
\* built, and the worker thread is spawned over a port of its own.
PlayNextFile(queue, status) ==
    IF queue = <<>>
    THEN /\ files_to_play' = queue
         /\ current_player' = status
         /\ UNCHANGED <<loadVars, portVars, playVars, last_session>>
    ELSE LET player == FilePlayerNew(Head(queue))
         IN  /\ files_to_play' = Tail(queue)
             /\ IF ~IsSome(player)
                THEN /\ current_player' = status
                     /\ UNCHANGED <<loadVars, portVars, playVars, last_session>>
                ELSE /\ current_player' = TRUE
                     /\ last_session' = IF SendFailed THEN "SendErr"
                                                      ELSE play_result
                     /\ file_division' = Head(queue).division
                     /\ player_division' = player[1].division
                     /\ player_events' = player[1].events
                     /\ new_pc' = "built"
                     /\ UNCHANGED <<file_tracks, track_i, events, mergeLocals>>
                     \* the new worker and its port object
                     /\ play_pc' = "connect"
                     /\ iter_pos' = 0
                     /\ current_tempo' = 0
                     /\ waiting_start' = 0
                     /\ waiting_micros' = 0
                     /\ observed' = "no"
                     /\ dispatched' = 0
                     /\ sent' = <<>>
                     /\ play_result' = "running"
                     /\ senders' = "alive"
                     /\ after_cancel' = 0
                     /\ port_state' = "none"
                     /\ inflight' = <<>>
                     /\ inflight_to_remove' = <<>>
                     /\ vec_buf' = 0
                     /\ vec_cap' = 0
                     /\ event_signaled' = FALSE
                     /\ op_calls' = <<>>
                     \* Instants are only compared by difference: each
                     \* session counts the time from its spawn.
                     /\ clock' = 0
                     \* The driver state followed is that of the handle of
                     \* the current session.
                     /\ drv_regs' = {}
                     /\ drv_handle' = "closed"
                     /\ UNCHANGED <<RUNNING, wild_write, harnessVars>>

\* on_draw while RUNNING is set: update_state takes what the file picker
\* delivered, updates the player status and plays the next file.
UpdateState ==
    /\ RUNNING
    /\ \E paths \in {<<>>} \cup (IF file_picker = "open" THEN Selections ELSE {}) :
          /\ file_picker' = IF paths = <<>> THEN file_picker ELSE "answered"
          /\ IF files_to_play \o paths # <<>> /\ ~PlayerStatus
             THEN PlayNextFile(files_to_play \o paths, PlayerStatus)
             ELSE /\ files_to_play' = files_to_play \o paths
                  /\ current_player' = PlayerStatus
                  /\ UNCHANGED <<loadVars, portVars, playVars, last_session>>

\* button_pressed_play (lines 183-187)
ButtonPressedPlay ==
    /\ RUNNING
    /\ ~current_player
    /\ PlayNextFile(files_to_play, current_player)
    /\ UNCHANGED file_picker

\* button_pressed_open_file_dialog (lines 177-181); one dialog is followed.
ButtonPressedOpenFileDialog ==
    /\ RUNNING
    /\ file_picker = "none"
    /\ file_picker' = "open"
    /\ UNCHANGED <<loadVars, portVars, playVars, current_player, files_to_play,
                   last_session>>

\* on_exit (lines 369-377): the flag is cleared and the worker is joined.
OnExit ==
    /\ RUNNING
    /\ RUNNING' = FALSE
    /\ UNCHANGED <<loadVars, portVars, ownerVars, senders, after_cancel,
                   play_pc, iter_pos, current_tempo,
                   waiting_start, waiting_micros, clock, observed, dispatched,
                   sent, play_result>>

\* No worker exists before the first file is played.
InitApp ==
    /\ InitLoad
    /\ InitPort
    /\ InitOwner
    /\ play_pc = "exited"
    /\ senders = "none"
    /\ RUNNING = TRUE
    /\ iter_pos = 0
    /\ current_tempo = 0
    /\ waiting_start = 0
    /\ waiting_micros = 0
    /\ clock = 0
    /\ observed = "no"
    /\ dispatched = 0
    /\ sent = <<>>
    /\ play_result = "none"
    /\ after_cancel = 0

NextApp ==
    \/ UpdateState
    \/ ButtonPressedPlay
    \/ ButtonPressedOpenFileDialog
    \/ OnExit
    \/ NextPlay

SpecApp == InitApp /\ [][NextApp]_vars

(***************************************************************************)
(* Properties of the load path, checked under SpecLoad.                    *)
(***************************************************************************)
\* Where an event of a merged timeline comes from: its track and position.
Positions ==
    { <<t, p>> : t \in 1..MaxTracks, p \in 1..MaxEvents } \cap
    { tp \in (1..Len(file_tracks)) \X (1..MaxEvents) :
          tp[2] <= Len(file_tracks[tp[1]]) }

SrcOf(ev) ==
    CHOOSE tp \in Positions : file_tracks[tp[1]][tp[2]].event = ev.event

\* The cumulative tick of an event in its source track.
SrcTick(ev) ==
    LET tp == SrcOf(ev) IN SumVtime(Prefix(file_tracks[tp[1]], tp[2]))

Occurrences(s, payload) ==
    Cardinality({ i \in DOMAIN s : s[i].event = payload })

Payloads(s) == { s[i].event : i \in DOMAIN s }

\* combine_tracks has returned at least once and its locals still show the call.
MergeReturned == track_i >= 2 /\ new_pc \in {"for", "built"}

\* C1: combine_tracks(A, B) returns exactly |A| + |B| events, every input
\* event of A and of B exactly once and nothing else, empty tracks included.
C1_MergeKeepsEveryEvent ==
    MergeReturned =>
        /\ events = Some(combined)
        /\ Len(combined) = Len(track1_events) + Len(track2_events)
        /\ \A pl \in Payloads(track1_events) \cup Payloads(track2_events) :
              Occurrences(combined, pl) = 1
        /\ Payloads(combined) = Payloads(track1_events) \cup Payloads(track2_events)

C1_Witness ==
    /\ MergeReturned
    /\ Len(track1_events) = 2
    /\ Len(track2_events) = 1
    /\ Len(combined) = 3

\* Every event of s sits at the cumulative tick it has in its source track.
TimedAsSource(s) ==
    \A k \in 1..Len(s) : SumVtime(Prefix(s, k)) = SrcTick(s[k])

\* C2: for every event at cumulative tick T of its source track, the merged
\* delta times up to and including it sum to T, in the output of every
\* combine_tracks call and in the result of the fold over all tracks.
C2_CumulativeTickKept ==
    /\ TimedAsSource(combined)
    /\ IsSome(events) => TimedAsSource(events[1])

\* The fold of three non-empty tracks, with an event whose delta was rebased.
C2_Witness ==
    /\ new_pc = "built"
    /\ track_i = 3
    /\ Len(events[1]) = 3
    /\ \A t \in 1..3 : Len(file_tracks[t]) = 1
    /\ \E k \in 1..3 :
          LET tp == SrcOf(events[1][k])
          IN events[1][k].vtime # file_tracks[tp[1]][tp[2]].vtime

\* A step of combine_tracks that finds both heads pending selects the second
\* track's head exactly when its pending delta is strictly smaller.
TieBreakStep ==
    (new_pc = "merge" /\ IsSome(t0) /\ IsSome(t1) /\ combined' # combined) =>
        LET e == combined'[Len(combined')]
        IN /\ (e.event = t1[1].event) <=> (t1[1].vtime < t0[1].vtime)
           /\ (e.event = t0[1].event) <=> (t1[1].vtime >= t0[1].vtime)

\* merge([(0, a)], [(0, b)]) = [a, b]
TieBreakExample ==
    ( /\ MergeReturned
      /\ Len(track1_events) = 1 /\ track1_events[1].vtime = 0
      /\ Len(track2_events) = 1 /\ track2_events[1].vtime = 0 )
    => combined = <<track1_events[1], track2_events[1]>>

\* C3: with both heads pending the second track's head is selected if and
\* only if its pending delta is strictly less than the first's; a tie goes to
\* the first (earlier folded) side, so merge([(0, a)], [(0, b)]) = [a, b].
C3_TieGoesToFirst == [][TieBreakStep]_vars /\ []TieBreakExample

C3_Witness ==
    /\ MergeReturned
    /\ Len(track1_events) = 1 /\ track1_events[1].vtime = 0
    /\ Len(track2_events) = 1 /\ track2_events[1].vtime = 0
    /\ combined = <<track1_events[1], track2_events[1]>>

\* The indices of the first k events of s that come from source track S.
FromTrack(s, k, S) == { i \in 1..k : SrcOf(s[i])[1] = S }

RECURSIVE SumVtimeAt(_, _)
SumVtimeAt(s, idx) ==
    IF idx = {} THEN 0
    ELSE LET i == CHOOSE j \in idx : TRUE
         IN s[i].vtime + SumVtimeAt(s, idx \ {i})

MaxOf(idx) == CHOOSE i \in idx : \A j \in idx : j <= i

\* The claim as stated: the merged deltas of the events of one source track
\* alone sum to the ticks of the corresponding source prefix.
RestrictedSumKept(s) ==
    \A k \in 0..Len(s), S \in 1..Len(file_tracks) :
        SumVtimeAt(s, FromTrack(s, k, S)) =
            SumVtime(Prefix(file_tracks[S], Cardinality(FromTrack(s, k, S))))

\* C4 as stated (fails: a rebased event carries less than its source delta).
C4_AsStated ==
    /\ RestrictedSumKept(combined)
    /\ IsSome(events) => RestrictedSumKept(events[1])

PrefixToLastOfSource(s) ==
    \A k \in 0..Len(s), S \in 1..Len(file_tracks) :
        LET idx == FromTrack(s, k, S)
        IN idx # {} =>
              SumVtime(Prefix(s, MaxOf(idx))) =
                  SumVtime(Prefix(file_tracks[S], Cardinality(idx)))

\* C4 (amended): for every prefix of the merged timeline and every source
\* track S with an event in it, the merged delta times of all events of the
\* prefix up to and including its last event from S sum to the delta times
\* of the corresponding prefix of S.
C4_PrefixSumToLastOfSource ==
    /\ PrefixToLastOfSource(combined)
    /\ IsSome(events) => PrefixToLastOfSource(events[1])

\* A merge result in which the events of one track alone sum to less than
\* their source ticks.
C4_Witness ==
    /\ MergeReturned
    /\ Len(combined) = 3
    /\ ~RestrictedSumKept(combined)
    /\ PrefixToLastOfSource(combined)

SamePayload(ev, out) ==
    IF ev.event.kind = "Midi"
    THEN out.data.kind = "CombinedMidi" /\ out.data.data = ev.event.data
    ELSE /\ out.data.kind = "Meta"
         /\ out.data.meta.command = ev.event.command
         /\ out.data.meta.data = ev.event.data

\* C5: combine_events keeps length and order: output i has the delta time of
\* input i and its payload unchanged (bytes as CombinedMidi, meta event as
\* Meta with command and data); nothing is reordered, joined or dropped.
C5_CompileOneToOne ==
    new_pc = "built" =>
        /\ Len(player_events) = Len(events[1])
        /\ \A i \in 1..Len(events[1]) :
              /\ player_events[i].delta_time = events[1][i].vtime
              /\ SamePayload(events[1][i], player_events[i])

\* A compiled timeline with a meta event and two channel messages at one tick.
C5_Witness ==
    /\ new_pc = "built"
    /\ Len(player_events) = 3
    /\ \E i \in 1..3 : player_events[i].data.kind = "Meta"
    /\ \E i \in 1..2 :
          /\ player_events[i].data.kind = "CombinedMidi"
          /\ player_events[i + 1].data.kind = "CombinedMidi"
          /\ player_events[i + 1].delta_time = 0

(***************************************************************************)
(* Properties of the output port, checked under SpecPort.                  *)
(***************************************************************************)
\* The value of the bytes of a message read least-significant byte first.
RECURSIVE LittleEndianSum(_)
LittleEndianSum(message) ==
    IF message = <<>> THEN 0
    ELSE message[1] + 256 * LittleEndianSum(Tail(message))

RECURSIVE Pow256(_)
Pow256(n) == IF n = 0 THEN 1 ELSE 256 * Pow256(n - 1)

ShortSent == last_op = "send" /\ Len(last_send.message) \in 1..3

\* C7: for every message of 1 to 3 bytes, send passes the driver a 32-bit
\* word equal to the sum of message[i] * 256^i, byte 0 least significant,
\* the bytes beyond the message length zero; [0x90, 0x40, 0x7F] gives
\* 0x007F4090 = 8339600.
C7_ShortPackingLittleEndian ==
    ShortSent =>
        /\ op_calls # <<>>
        /\ \A k \in DOMAIN op_calls :
              /\ op_calls[k].fn = "midiOutShortMsg"
              /\ op_calls[k].arg = LittleEndianSum(last_send.message)
              /\ op_calls[k].arg \div Pow256(Len(last_send.message)) = 0
        /\ last_send.message = <<144, 64, 127>>
              => op_calls[Len(op_calls)].arg = 8339600

C7_Witness ==
    /\ ShortSent
    /\ last_send.message = <<144, 64, 127>>
    /\ last_send.result = "Ok"
    /\ Len(op_calls) = 2
    /\ op_calls[2].arg = 8339600

\* What the last check_inflight saw of element i, and whether an element
\* with the same buffer is still in the collection, unchanged.
PolledDone(i) == IsDone(last_poll.before[i].data.dwFlags)
PolledStillPlaying(i) == last_poll.answers[i] = STILLPLAYING
StaysUnchanged(i) == \E j \in DOMAIN inflight : inflight[j] = last_poll.before[i]
Gone(i) ==
    \A j \in DOMAIN inflight :
        inflight[j].message.addr # last_poll.before[i].message.addr

\* C8: check_inflight never removes an entry whose done flag is not set, nor
\* one whose unprepare reports still-playing; such an entry stays in the
\* collection unchanged, in every poll; an entry is removed only by a poll
\* in which done is set and unprepare does not report still-playing.
C8_PollKeepsUnfinished ==
    last_op = "check_inflight" =>
        \A i \in DOMAIN last_poll.before :
            /\ (~PolledDone(i) \/ PolledStillPlaying(i)) => StaysUnchanged(i)
            /\ Gone(i) => (PolledDone(i) /\ ~PolledStillPlaying(i))

C8_Witness ==
    /\ last_op = "check_inflight"
    /\ \E i, k \in DOMAIN last_poll.before :
          /\ PolledDone(i) /\ PolledStillPlaying(i) /\ StaysUnchanged(i)
          /\ ~PolledDone(k) /\ StaysUnchanged(k)

\* C10: the buffer and the descriptor of an entry are never freed while the
\* descriptor is registered with the driver: whatever the driver holds is
\* the buffer of an entry of the collection, in the allocation that holds
\* the collection's elements.
C10_NeverFreedWhileRegistered ==
    \A r \in drv_regs :
        /\ r.lpData \in Boxes(World)
        /\ vec_cap > 0
        /\ r.hdr[1] = vec_buf

(***************************************************************************)
(* Properties of the worker, checked under SpecPlay.                       *)
(***************************************************************************)
\* The worker is pacing an event: its wait has been computed.
Pacing == play_pc = "spin"

\* C6: for an event with delta_ticks > 0 the wait is
\* floor(delta_ticks * tempo / division), the multiplication done before the
\* truncating division; division 480, tempo 500000, delta 480 gives 500000,
\* and division 480, tempo 250000, delta 240 gives 125000.
C6_WaitIsFloorOfProduct ==
    Pacing =>
        /\ Event.delta_time > 0
        /\ waiting_micros >= 0
        /\ waiting_micros * player_division <= Event.delta_time * current_tempo
        /\ Event.delta_time * current_tempo < (waiting_micros + 1) * player_division
        /\ (player_division = 480 /\ current_tempo = 500000 /\ Event.delta_time = 480)
              => waiting_micros = 500000
        /\ (player_division = 480 /\ current_tempo = 250000 /\ Event.delta_time = 240)
              => waiting_micros = 125000

\* The second example, and a wait that the division truncates.
C6_Witness ==
    /\ Pacing
    /\ player_division = 480
    /\ current_tempo = 250000
    /\ Event.delta_time = 240
    /\ waiting_micros = 125000

C6_WitnessTruncated ==
    /\ Pacing
    /\ waiting_micros * player_division < Event.delta_time * current_tempo

\* No send of the step was made for a timeline event.
NoEventCall(calls) == \A k \in DOMAIN calls : calls[k].by # "event"

DispatchesNothing ==
    /\ dispatched' = dispatched
    /\ sent' = sent
    /\ iter_pos' = iter_pos
    /\ NoEventCall(op_calls')

\* C9: once the worker has observed the cancellation flag set, between two
\* events or in an iteration of the pacing loop, it dispatches no further
\* event: the remaining events stay unprocessed and no send for any of them
\* reaches the device; only the reset of the port's teardown does.
C9_NoDispatchAfterCancelObserved ==
    [][observed # "no" => DispatchesNothing]_vars

\* Cancelled inside a wait, after a send and with events left; the port has
\* been torn down since.
C9_Witness ==
    /\ observed = "in wait"
    /\ play_pc = "exited"
    /\ Len(sent) >= 1
    /\ dispatched < Len(player_events)
    /\ \E k \in DOMAIN op_calls : op_calls[k].by = "drop"

C9_WitnessBetweenEvents ==
    /\ observed = "between events"
    /\ play_pc = "exited"
    /\ dispatched >= 1
    /\ dispatched < Len(player_events)

(***************************************************************************)
(* Further properties of the output port, checked under SpecPort.          *)
(***************************************************************************)
\* C11: between the prepare of an in-flight entry and its unprepare neither
\* its bytes nor its descriptor changes memory location: for every header
\* the driver holds, the entry with that buffer still has its descriptor at
\* the address the driver was given, whatever was sent or removed since.
C11_RegisteredHeaderStaysInPlace ==
    \A r \in drv_regs :
        \A j \in DOMAIN inflight :
            inflight[j].message.addr = r.lpData => r.hdr = HdrAddr(World, j)

\* The positions in the calls of the last step at which fn was called.
CallsOf(fn) == { k \in DOMAIN op_calls : op_calls[k].fn = fn }

SendCalls == CallsOf("midiOutPrepareHeader") \cup CallsOf("midiOutLongMsg")

\* C12: dropping the port always makes, in this order, an attempt to send
\* the reset sequences, the driver's stop-all call, the driver's close call
\* and the release of the event handle; the stop-all and the close are made
\* whatever the earlier steps returned, and the drop completes whatever any
\* of them returned.
C12_DropOrderUnconditional ==
    last_op = "drop" =>
        LET n == Len(op_calls)
        IN /\ port_state = "dropped"
           /\ n >= 4
           /\ op_calls[1].fn = "midiOutPrepareHeader"
           /\ op_calls[1].arg = GS1_RESET
           /\ SendCalls = 1..(n - 3)
           /\ op_calls[n - 2].fn = "midiOutReset"
           /\ op_calls[n - 1].fn = "midiOutClose"
           /\ op_calls[n].fn = "CloseHandle"
           /\ \A k \in DOMAIN op_calls : op_calls[k].by = "drop"

\* A drop in which the reset could not be sent, and the stop-all and the
\* close failed too.
C12_Witness ==
    /\ last_op = "drop"
    /\ port_state = "dropped"
    /\ Len(op_calls) = 4
    /\ op_calls[1].result = DRVERROR
    /\ op_calls[2].fn = "midiOutReset" /\ op_calls[2].result = DRVERROR
    /\ op_calls[3].fn = "midiOutClose" /\ op_calls[3].result # NOERROR
    /\ op_calls[4].fn = "CloseHandle"

\* The calls of the last send that its retry loop made: the short-message
\* calls, or the long-message calls that follow a successful prepare.
LoopCalls ==
    IF Len(last_send.message) <= 3
    THEN op_calls
    ELSE SubSeq(op_calls, 2, Len(op_calls))

LoopFn ==
    IF Len(last_send.message) <= 3 THEN "midiOutShortMsg" ELSE "midiOutLongMsg"

\* The last send reached the call it retries.
Submitted ==
    /\ last_op = "send"
    /\ Len(last_send.message) >= 1
    /\ Len(last_send.message) > 3 => last_send.answers.prepare = NOERROR

\* C13: send never fails because of a not-ready status: each not-ready
\* answer makes it issue the same call again, and its result is that of the
\* first answer that is not not-ready: Ok for success, an error otherwise.
C13_NotReadyIsRetried ==
    Submitted =>
        LET a == last_send.answers
            n == Len(LoopCalls)
        IN /\ n = a.tries + 1
           /\ \A k \in 1..n :
                 /\ LoopCalls[k].fn = LoopFn
                 /\ LoopCalls[k].arg = LoopCalls[1].arg
                 /\ LoopCalls[k].result = IF k < n THEN NOTREADY ELSE a.final
           /\ a.final # NOTREADY
           /\ last_send.result = IF a.final = NOERROR THEN "Ok" ELSE "Err"

\* A long send that succeeds after a not-ready answer.
C13_Witness ==
    /\ Submitted
    /\ Len(last_send.message) > 3
    /\ last_send.answers.tries >= 1
    /\ last_send.result = "Ok"
    /\ op_calls[2].result = NOTREADY
    /\ op_calls[Len(op_calls)].result = NOERROR

\* A short send that fails with another status after a not-ready answer.
C13_WitnessShortError ==
    /\ Submitted
    /\ Len(last_send.message) <= 3
    /\ op_calls[1].result = NOTREADY
    /\ last_send.result = "Err"

(***************************************************************************)
(* Further properties of the load path, checked under SpecLoad.            *)
(***************************************************************************)
\* The event of the two arguments of combine_tracks that ev was emitted for.
InputOf(ev) ==
    CHOOSE e \in { track1_events[i] : i \in DOMAIN track1_events } \cup
                 { track2_events[i] : i \in DOMAIN track2_events } :
        e.event = ev.event

FromSecond(ev) == ev.event \in Payloads(track2_events)

\* The last position before k that holds an event of the same argument, or 0.
PrevSameSide(s, k) ==
    LET same == { j \in 1..(k - 1) : FromSecond(s[j]) = FromSecond(s[k]) }
    IN IF same = {} THEN 0 ELSE MaxOf(same)

RECURSIVE SumBetween(_, _, _)
SumBetween(s, lo, hi) ==
    IF lo > hi THEN 0 ELSE s[lo].vtime + SumBetween(s, lo + 1, hi)

\* The claim as stated: every emitted event carries the delta it had in its
\* input track.
C14_AsStated ==
    MergeReturned =>
        \A k \in DOMAIN combined : combined[k].vtime = InputOf(combined[k]).vtime

\* The emitted delta is the input delta less what the other side's events,
\* emitted while the event was the pending head, took from it.
EmittedIsRebased ==
    MergeReturned =>
        \A k \in DOMAIN combined :
            combined[k].vtime =
                InputOf(combined[k]).vtime
                    - SumBetween(combined, PrevSameSide(combined, k) + 1, k - 1)

\* A step emits the selected head as it is pending and advances that side only.
EmitsPendingHead ==
    (new_pc = "merge" /\ combined' # combined) =>
        LET e == combined'[Len(combined')]
        IN /\ combined' = Append(combined, e)
           /\ \/ /\ IsSome(t0) /\ e = t0[1]
                 /\ track2' = track2
                 /\ IsSome(t1) <=> IsSome(t1')
                 /\ IsSome(t1) => t1'[1].event = t1[1].event
              \/ /\ IsSome(t1) /\ e = t1[1]
                 /\ track1' = track1
                 /\ IsSome(t0) <=> IsSome(t0')
                 /\ IsSome(t0) => t0'[1].event = t0[1].event

\* C14: in a pairwise merge each emitted event carries the pending delta of
\* its side's head at the step that selects it, which that step leaves
\* unchanged: its input delta less the deltas of the other side's events
\* emitted while it was pending; each step advances only the selected side.
C14_EmittedDeltaIsPendingDelta ==
    [][EmitsPendingHead]_vars /\ []EmittedIsRebased

\* A pairwise merge that emitted an event with less than its input delta.
C14_Witness ==
    /\ MergeReturned
    /\ \E k \in DOMAIN combined :
          /\ combined[k].vtime < InputOf(combined[k]).vtime
          /\ PrevSameSide(combined, k) < k - 1

(***************************************************************************)
(* Further properties of the output port, checked under SpecPort.          *)
(***************************************************************************)
LongSent == last_op = "send" /\ Len(last_send.message) > 3

\* C15: for a message longer than 3 bytes, if prepare fails or the
\* submission fails with a status other than not-ready, send returns an
\* error and the in-flight collection is what it was before the call; if the
\* submission succeeds, send returns Ok and the collection is the previous
\* one with one entry appended that holds a copy of the message bytes.
C15_LongSendCollection ==
    LongSent =>
        LET a == last_send.answers
            n == Len(inflight)
        IN IF a.prepare # NOERROR \/ a.final # NOERROR
           THEN /\ last_send.result = "Err"
                /\ inflight = last_send.before
           ELSE /\ last_send.result = "Ok"
                /\ n = Len(last_send.before) + 1
                /\ SubSeq(inflight, 1, n - 1) = last_send.before
                /\ inflight[n].message.bytes = last_send.message
                /\ inflight[n].data.lpData = inflight[n].message.addr
                /\ inflight[n].data.dwBufferLength = Len(last_send.message)
                /\ \A j \in 1..(n - 1) :
                      inflight[j].message.addr # inflight[n].message.addr

\* A submission that failed after a successful prepare, with an entry
\* already in flight.
C15_Witness ==
    /\ LongSent
    /\ last_send.answers.prepare = NOERROR
    /\ last_send.answers.final = DRVERROR
    /\ last_send.result = "Err"
    /\ last_send.before # <<>>
    /\ inflight = last_send.before

C15_WitnessAppended ==
    /\ LongSent
    /\ last_send.result = "Ok"
    /\ Len(inflight) = 2
    /\ last_send.answers.tries >= 1

(***************************************************************************)
(* The stepwise model of the load agrees with combine_tracks and           *)
(* FilePlayer::new taken as functions (checked under SpecLoad).             *)
(***************************************************************************)
StepwiseLoadAgrees ==
    /\ MergeReturned => combined = combine_tracks(track1_events, track2_events)
    /\ (new_pc = "for" /\ IsSome(events))
          => events = FoldTracks(Prefix(file_tracks, track_i), 1, None)
    /\ new_pc = "built" => player_events = LoadedEvents(file_tracks)

(***************************************************************************)
(* Further properties of the worker, checked under SpecPlay.               *)
(***************************************************************************)
\* The tempo a tempo meta event carries: three bytes, most significant first.
TempoValue(data) == 65536 * data[1] + 256 * data[2] + data[3]

IsTempo(ev) == ev.data.kind = "Meta" /\ ev.data.meta.command = "TempoSetting"

\* The value of the most recent tempo event among the first i events of the
\* timeline, 500000 if there is none.
RECURSIVE TempoInForce(_)
TempoInForce(i) ==
    IF i = 0 THEN 500000
    ELSE IF IsTempo(player_events[i]) THEN TempoValue(player_events[i].data.meta.data)
    ELSE TempoInForce(i - 1)

\* The worker holds an event it has not dispatched yet.
HoldsEvent == play_pc \in {"wait_event", "spin", "reset_start", "dispatch"}

ScenarioPlayed == player_events = ScenarioTimeline /\ player_division = 96

\* C16: the wait of the i-th event is computed with the tempo of the most
\* recent tempo event among the events before it, 500000 if there is none,
\* so a tempo event's own wait uses the tempo in force before it.  The
\* two-track scenario (division 96) plays note-on@0, tempo@48, note-off@48
\* with waits 250000 for the tempo event and 125000 for the note-off.
C16_TempoOfPrecedingEvents ==
    /\ HoldsEvent =>
          /\ current_tempo = TempoInForce(iter_pos - 1)
          /\ dispatched = iter_pos - 1
    /\ Pacing =>
          LET product == Event.delta_time * TempoInForce(iter_pos - 1)
          IN /\ waiting_micros * player_division <= product
             /\ product < (waiting_micros + 1) * player_division
    /\ ScenarioTimeline = << Note(0, <<144, 60, 127>>), Tempo250000(48),
                             Note(48, <<128, 60, 0>>) >>
    /\ (ScenarioPlayed /\ HoldsEvent) =>
          /\ iter_pos = 1 => play_pc # "spin"
          /\ (iter_pos = 2 /\ Pacing) => waiting_micros = 250000
          /\ (iter_pos = 3 /\ Pacing) => waiting_micros = 125000

\* The scenario, pacing its note-off after both other events were dispatched.
C16_Witness ==
    /\ ScenarioPlayed
    /\ Pacing
    /\ iter_pos = 3
    /\ dispatched = 2
    /\ current_tempo = 250000
    /\ waiting_micros = 125000

\* A step that brings an event to the match on its data.
ReachesDispatch == play_pc # "dispatch" /\ play_pc' = "dispatch"

\* An event with a delta is dispatched only out of a completed wait, the
\* clock at least the wait past waiting_start, which is then taken anew.
DispatchAfterWait ==
    (ReachesDispatch /\ Event'.delta_time > 0) =>
        /\ play_pc = "reset_start"
        /\ clock - waiting_start >= waiting_micros
        /\ waiting_micros * player_division <= Event.delta_time * current_tempo
        /\ Event.delta_time * current_tempo < (waiting_micros + 1) * player_division
        /\ waiting_start' = clock

\* An event without a delta goes from the event wait to its dispatch, and
\* waiting_start stays.
DispatchWithoutWait ==
    (ReachesDispatch /\ Event'.delta_time = 0) =>
        /\ play_pc = "wait_event"
        /\ waiting_start' = waiting_start
        /\ clock' = clock

\* waiting_start is the start of the session or the instant taken after the
\* last completed wait: nothing else sets it.
StartTakenOnlyAfterWait ==
    waiting_start' # waiting_start =>
        /\ play_pc \in {"send_reset", "reset_start"}
        /\ waiting_start' = clock

\* C17: an event with delta_ticks > 0 is never dispatched before the clock
\* is at least wait_micros past last_dispatch_time (the session start or the
\* instant taken right after the last completed wait); an event with
\* delta_ticks = 0 is dispatched without waiting and leaves
\* last_dispatch_time as it is.
C17_NeverDispatchedEarly ==
    [][DispatchAfterWait /\ DispatchWithoutWait /\ StartTakenOnlyAfterWait]_vars

\* An event dispatched out of a wait that the clock had run past, after an
\* event without a delta was dispatched with no wait in between.
C17_Witness ==
    /\ play_pc = "dispatch"
    /\ Event.delta_time > 0
    /\ waiting_micros > 0
    /\ waiting_start = clock
    /\ iter_pos >= 2
    /\ player_events[iter_pos - 1].delta_time = 0
    /\ dispatched = iter_pos - 1

\* The non-meta events among the first i events of the timeline, in order,
\* each with its position.
RECURSIVE NonMetaOf(_)
NonMetaOf(i) ==
    IF i = 0 THEN <<>>
    ELSE IF player_events[i].data.kind = "Meta" THEN NonMetaOf(i - 1)
    ELSE Append(NonMetaOf(i - 1),
                [index |-> i, message |-> player_events[i].data.data])

\* The sends made so far are those of the non-meta events dispatched so far;
\* only the last of them can have failed.
SentIsNonMetaPrefix ==
    LET expected == NonMetaOf(dispatched)
    IN /\ Len(sent) = Len(expected)
       /\ \A k \in DOMAIN sent :
             /\ sent[k].index = expected[k].index
             /\ sent[k].message = expected[k].message
             /\ k < Len(sent) => sent[k].result = "Ok"

\* What the driver is given for a message: the packed word, or the bytes.
DriverArg(message) ==
    IF Len(message) <= 3 THEN LittleEndianSum(message) ELSE message

\* A step dispatches one event; a meta event causes no driver call, another
\* event one send, whose driver calls all carry its payload.
OneSendPerEvent ==
    /\ dispatched' \in {dispatched, dispatched + 1}
    /\ (dispatched' # dispatched /\ Event.data.kind = "Meta") =>
          /\ sent' = sent
          /\ \A k \in DOMAIN op_calls' : op_calls'[k].fn = "SetEvent"
    /\ (dispatched' # dispatched /\ Event.data.kind # "Meta") =>
          /\ Len(sent') = Len(sent) + 1
          /\ op_calls' # <<>>
          /\ \A k \in DOMAIN op_calls' :
                /\ op_calls'[k].by = "event"
                /\ op_calls'[k].arg = DriverArg(Event.data.data)
    /\ dispatched' = dispatched =>
          /\ sent' = sent
          /\ op_calls' = op_calls \/ NoEventCall(op_calls')

\* C18: the sends made for timeline events during a session are, in order
\* and one send per event, the payloads of the non-meta events of the
\* processed prefix of the timeline; a meta event never causes a driver call.
C18_SendsAreNonMetaPayloads ==
    [][OneSendPerEvent]_vars /\ []SentIsNonMetaPrefix

\* A session that has dispatched a long message, a meta event and a short
\* message, in this order.
C18_Witness ==
    /\ dispatched = 3
    /\ Len(sent) = 2
    /\ sent[1].index = 1 /\ Len(sent[1].message) > 3
    /\ sent[2].index = 3 /\ Len(sent[2].message) <= 3
    /\ player_events[2].data.kind = "Meta"
    /\ \E k \in DOMAIN op_calls : op_calls[k].by = "event"

\* The worker is at its event wait and the event before this one was a meta
\* event.
WaitFollowsMeta ==
    /\ play_pc = "wait_event"
    /\ iter_pos >= 2
    /\ player_events[iter_pos - 1].data.kind = "Meta"

\* The step that processes a meta event signals the event of the port.
MetaSignals ==
    (dispatched' # dispatched /\ Event.data.kind = "Meta") =>
        /\ op_calls' # <<>>
        /\ op_calls'[Len(op_calls')].fn = "SetEvent"
        /\ event_signaled'
        /\ play_pc' = "fetch"

\* C19: after the worker has processed a meta event it signals the event of
\* the port before the next iteration reaches its wait on it, so the wait
\* that follows a meta event finds the event signaled and returns.
C19_SignaledAfterMeta ==
    [][MetaSignals]_vars /\ [](WaitFollowsMeta => event_signaled)

\* The wait that follows a meta event that is not a tempo event, about to
\* return.
C19_Witness ==
    /\ WaitFollowsMeta
    /\ event_signaled
    /\ ~IsTempo(player_events[iter_pos - 1])
    /\ dispatched = iter_pos - 1
    /\ ENABLED PlayWait

(***************************************************************************)
(* The division of an accepted file (SpecLoad) and its use by the worker   *)
(* (SpecPlay).                                                             *)
(***************************************************************************)
\* C20: every sequence accepted for playback has division > 0:
\* FilePlayer::new rejects a file whose division is not a positive number of
\* ticks per quarter note, so the wait computation never divides by zero.
C20_AcceptedDivisionPositive ==
    new_pc = "built" => (file_division > 0 /\ player_division > 0)

\* The same for the worker: play_events never panics on the division.
C20_NoDivisionByZero == play_result # "panic"

(***************************************************************************)
(* The end of the load (SpecLoad).                                         *)
(***************************************************************************)
\* C21: loading fails with an error, and no player is built, whenever the
\* merged timeline holds no event: when the file has no tracks and when
\* every track of the file is empty.
C21_EmptyTimelineIsAnError ==
    new_pc = "built" => player_events # <<>>

(***************************************************************************)
(* The sessions of one owner (SpecApp).                                    *)
(***************************************************************************)

\* The step starts a new session: a worker is spawned over the given file.
StartsSession(file) ==
    /\ play_pc' = "connect"
    /\ port_state' = "none"
    /\ senders' = "alive"
    /\ current_player'
    /\ sent' = <<>>
    /\ player_events' = FilePlayerNew(file)[1].events

\* C22: a send error during playback ends only its session. The failing
\* step sets the result to an error and leaves the cancellation flag and
\* the owner alone; from then on the worker dispatches nothing more, its
\* port is dropped before its senders are, no step of the worker clears the
\* flag, and the next update_state of the owner after the senders are gone
\* clears the current player and, when a loadable file is queued, starts
\* the session of that file.
C22_SendErrorEndsOnlyItsSession ==
    [][ /\ (~SendFailed /\ SendFailed') =>
              /\ play_result' = "Err"
              /\ play_pc' = "drop"
              /\ RUNNING' = RUNNING
              /\ ownerVars' = ownerVars
              /\ senders' = senders
        /\ SendFailed =>
              /\ play_pc \in {"drop", "exited"}
              /\ play_pc = "exited" => port_state = "dropped"
              /\ senders = "dropped" => play_pc = "exited"
              /\ (sent' = sent /\ dispatched' = dispatched) \/ play_pc' = "connect"
              /\ RUNNING' # RUNNING =>
                    play_pc' = play_pc /\ senders' = senders /\ portVars' = portVars
        /\ (SendFailed /\ senders = "dropped" /\ current_player /\ UpdateState) =>
              IF files_to_play # <<>> /\ IsSome(FilePlayerNew(Head(files_to_play)))
              THEN StartsSession(Head(files_to_play)) /\ files_to_play' = Tail(files_to_play)
              ELSE ~current_player' /\ play_pc' = play_pc
      ]_vars

\* A session whose send failed was followed by the session of the next
\* queued file, which is dispatching while the flag is still set.
C22_Witness ==
    /\ last_session = "SendErr"
    /\ RUNNING
    /\ play_pc = "dispatch"
    /\ port_state = "open"

(***************************************************************************)
(* One poll over a collection of three (SpecPoll).                         *)
(***************************************************************************)

\* The entry at index i of the polled collection qualifies for removal.
Qualifies(i) == PolledDone(i) /\ ~PolledStillPlaying(i)

\* The entries of the polled collection from index i on that do not
\* qualify, in their order.
RECURSIVE RemainingFrom(_)
RemainingFrom(i) ==
    IF i > Len(last_poll.before) THEN <<>>
    ELSE (IF Qualifies(i) THEN <<>> ELSE <<last_poll.before[i]>>)
         \o RemainingFrom(i + 1)

\* C23: one check_inflight call removes exactly the entries whose done flag
\* is set and whose unprepare answered something other than still-playing,
\* however many of them there are and wherever they stand, and leaves the
\* other entries as they were and in their order.
C23_PollRemovesExactlyTheFinished ==
    last_op = "check_inflight" => inflight = RemainingFrom(1)

\* One call removed the first and the last of three entries and kept the
\* one between them.
C23_Witness ==
    /\ last_op = "check_inflight"
    /\ Len(last_poll.before) = 3
    /\ Qualifies(1) /\ ~Qualifies(2) /\ Qualifies(3)
    /\ inflight = <<last_poll.before[2]>>

\* One call removed two adjacent entries of three.
C23_WitnessAdjacent ==
    /\ last_op = "check_inflight"
    /\ Len(last_poll.before) = 3
    /\ Qualifies(1) /\ Qualifies(2) /\ ~Qualifies(3)
    /\ inflight = <<last_poll.before[3]>>

(***************************************************************************)
(* Cancellation of the worker (SpecPlay).                                  *)
(***************************************************************************)

\* C24: once RUNNING is cleared the worker dispatches at most one more
\* event of the timeline; having dispatched it, it is at the flag check
\* between two events or on its way out.
C24_AtMostOneDispatchAfterCancel ==
    /\ after_cancel <= 1
    /\ after_cancel = 1 => play_pc \in {"fetch", "drop", "exited"}

\* The flag was cleared while an event was pending; that event was still
\* dispatched, and the worker left with events of the timeline undispatched.
C24_Witness ==
    /\ ~RUNNING
    /\ after_cancel = 1
    /\ play_pc = "exited"
    /\ observed = "between events"
    /\ dispatched < Len(player_events)

(***************************************************************************)
(* The arithmetic and the order of the merge (SpecLoad).                   *)
(***************************************************************************)

\* The delta of the head that the next merge step selects is not larger
\* than the delta of the other pending head.
SelectedIsNotLater ==
    (new_pc = "merge" /\ IsSome(t0) /\ IsSome(t1)) =>
        IF Select(t0, t1) = 0 THEN t0[1].vtime <= t1[1].vtime
                              ELSE t1[1].vtime <= t0[1].vtime

\* C25: the subtraction of combine_tracks never underflows: in every step
\* the selected delta is at most the pending delta of the other side, and
\* every pending and every emitted delta is a non-negative tick count.
C25_RebaseNeverUnderflows ==
    /\ SelectedIsNotLater
    /\ IsSome(t0) => t0[1].vtime >= 0
    /\ IsSome(t1) => t1[1].vtime >= 0
    /\ \A i \in DOMAIN combined : combined[i].vtime >= 0
    /\ IsSome(events) => \A i \in DOMAIN events[1] : events[1][i].vtime >= 0
    /\ \A i \in DOMAIN player_events : player_events[i].delta_time >= 0

\* The pending head of the second track has been rebased by a positive
\* delta of the first track and is still ahead.
C25_Witness ==
    /\ new_pc = "merge"
    /\ combined # <<>>
    /\ IsSome(t1)
    /\ t1[1].vtime > 0
    /\ t1[1].vtime < track2_events[Len(track2_events) - Len(track2)].vtime

\* The key (absolute tick, source track, position in it) of e1 is below
\* that of e2.
KeyBelow(e1, e2) ==
    LET a == SrcOf(e1)
        b == SrcOf(e2)
    IN  \/ SrcTick(e1) < SrcTick(e2)
        \/ /\ SrcTick(e1) = SrcTick(e2)
           /\ a[1] < b[1] \/ (a[1] = b[1] /\ a[2] < b[2])

\* The timeline folded so far, while no combine_tracks call is running.
Folded == IF IsSome(events) THEN events[1] ELSE <<>>

\* C26: the timeline folded from the tracks, after each combine_tracks call,
\* stands in the order of (absolute tick, source track, position in the
\* source track), the absolute tick of an event in the timeline being its
\* tick in its track: the events of one track keep their order, and at one
\* tick the events of an earlier track precede those of a later track.
C26_FoldOrderedByTickTrackPosition ==
    \A i, j \in DOMAIN Folded :
        /\ SumVtime(Prefix(Folded, i)) = SrcTick(Folded[i])
        /\ i < j => KeyBelow(Folded[i], Folded[j])

\* Three tracks are folded: two events of different tracks meet at one
\* tick, and an event of a later track precedes one of an earlier track.
C26_Witness ==
    /\ new_pc = "for"
    /\ track_i = 3
    /\ Len(Folded) = 3
    /\ \E i, j \in DOMAIN Folded :
          /\ i < j
          /\ SrcTick(Folded[i]) = SrcTick(Folded[j])
          /\ SrcOf(Folded[i])[1] < SrcOf(Folded[j])[1]
    /\ \E i, j \in DOMAIN Folded :
          /\ i < j
          /\ SrcOf(Folded[i])[1] > SrcOf(Folded[j])[1]

(***************************************************************************)
(* Termination of a session (SpecPlayFair).                                *)
(***************************************************************************)

\* play_events has returned (or unwound), its port is torn down or was
\* never opened, and its senders are dropped.
SessionOver ==
    /\ play_pc = "exited"
    /\ port_state \in {"dropped", "failed"}
    /\ play_result # "running"
    /\ senders = "dropped"

\* C27: with a fair worker, an advancing clock and a driver that stops
\* answering not-ready and signals the event on open, every session over a
\* finite timeline ends - played to the end, cancelled or failed - and the
\* teardown of its port completes.
C27_SessionTerminates == <>SessionOver

\* A session played a timeline with waits to its end and tore its port down.
C27_Witness ==
    /\ SessionOver
    /\ RUNNING
    /\ play_result = "Ok"
    /\ port_state = "dropped"
    /\ Len(player_events) >= 3
    /\ dispatched = Len(player_events)
    /\ clock > 0

(***************************************************************************)
(* One open port per owner (SpecApp).                                      *)
(***************************************************************************)

\* The step is one of the owner that spawns a worker.
Spawns ==
    /\ play_pc' = "connect"
    /\ port_state' = "none"
    /\ senders' = "alive"
    /\ <<files_to_play, file_picker>>' # <<files_to_play, file_picker>>

\* The worker of a session is gone: its port is torn down or was never
\* opened, and play_events is left.
WorkerGone ==
    /\ play_pc = "exited"
    /\ port_state # "open"

\* C28: at most one worker holds an open port. The worker with the open
\* port is the one of the current player and still has its senders; the
\* senders are dropped only after the port is torn down; the owner clears
\* the current player only when the senders are gone; and it spawns a
\* worker only with no current player, when the worker before it is gone.
C28_OneOpenPort ==
    [][ /\ port_state = "open" => (current_player /\ senders = "alive")
        /\ senders = "dropped" => WorkerGone
        /\ (senders = "alive" /\ senders' = "dropped") => WorkerGone
        /\ (current_player /\ ~current_player') => senders = "dropped"
        /\ Spawns => (WorkerGone /\ senders # "alive" /\ ~PlayerStatus)
      ]_vars

\* A second worker holds an open port after the first one's session ended.
C28_Witness ==
    /\ last_session # "none"
    /\ port_state = "open"
    /\ play_pc = "spin"
    /\ current_player
    /\ senders = "alive"

====
